---- MODULE Spec2Model ----
(***************************************************************************)
(* Patent-landscape dashboard: the CSV-to-JSON route handlers.             *)
(*                                                                         *)
(* A JavaScript string is modelled as a sequence of one-character strings  *)
(* (<<"N","O">> is "NO"), so that trim, toUpperCase, parseInt, replace and *)
(* includes are computed character by character as the runtime does.       *)
(* The value undefined is the one-element sequence <<"undefined">>, which  *)
(* is no string because its element is not a single character.             *)
(***************************************************************************)
EXTENDS Integers, Sequences, FiniteSets, TLC

VARIABLES
  files,        \* the data directory: path below data/ -> state of the file
  resp,         \* the response of the request being answered, if any
  ownerRecords, \* parsed rows of a Current-Owner_*-Full.csv
  ownerResult,  \* what processOwnerClassification made of ownerRecords
  tlResult,     \* what convertToLongFormat made of the timeline file
  input,        \* the argument a helper function is called with
  output,       \* what the helper function returned
  req           \* the requests in flight: slot -> the locals of its handler

vars == <<files, resp, ownerRecords, ownerResult, tlResult, input, output, req>>

(***************************************************************************)
(* JavaScript strings and numbers                                          *)
(***************************************************************************)
undefined == <<"undefined">>

\* the code unit U+FEFF, the byte-order mark: one character of a string
BOM == "U+FEFF"

\* what String.prototype.trim strips; U+FEFF is white space in ECMAScript
Whitespace == {" ", "\t", BOM}

Digits == <<"0", "1", "2", "3", "4", "5", "6", "7", "8", "9">>

LowerLetters == <<"a", "b", "c", "d", "e", "f", "g", "h", "i", "j", "k", "l", "m",
                  "n", "o", "p", "q", "r", "s", "t", "u", "v", "w", "x", "y", "z">>

UpperLetters == <<"A", "B", "C", "D", "E", "F", "G", "H", "I", "J", "K", "L", "M",
                  "N", "O", "P", "Q", "R", "S", "T", "U", "V", "W", "X", "Y", "Z">>

IsDigit(c) == \E i \in DOMAIN Digits : Digits[i] = c

DigitVal(c) == (CHOOSE i \in DOMAIN Digits : Digits[i] = c) - 1

toUpperChar(c) ==
  IF \E i \in DOMAIN LowerLetters : LowerLetters[i] = c
  THEN UpperLetters[CHOOSE i \in DOMAIN LowerLetters : LowerLetters[i] = c]
  ELSE c

toLowerChar(c) ==
  IF \E i \in DOMAIN UpperLetters : UpperLetters[i] = c
  THEN LowerLetters[CHOOSE i \in DOMAIN UpperLetters : UpperLetters[i] = c]
  ELSE c

\* String.prototype.toUpperCase / toLowerCase
toUpperCase(s) == [i \in 1..Len(s) |-> toUpperChar(s[i])]

toLowerCase(s) == [i \in 1..Len(s) |-> toLowerChar(s[i])]

RECURSIVE trimStart(_)
trimStart(s) ==
  IF s # <<>> /\ Head(s) \in Whitespace THEN trimStart(Tail(s)) ELSE s

RECURSIVE trimEnd(_)
trimEnd(s) ==
  IF s # <<>> /\ s[Len(s)] \in Whitespace
  THEN trimEnd(SubSeq(s, 1, Len(s) - 1))
  ELSE s

\* String.prototype.trim
trim(s) == trimEnd(trimStart(s))

\* value?.trim(): undefined stays undefined
optTrim(v) == IF v = undefined THEN undefined ELSE trim(v)

\* JavaScript truthiness of a string-or-undefined value
Truthy(v) == v # undefined /\ v # <<>>

\* a || b on string-or-undefined values
OrElse(a, b) == IF Truthy(a) THEN a ELSE b

\* s.replace(/[chars]/g, ''): every character of the set removed
RemoveChars(s, chars) == SelectSeq(s, LAMBDA c : c \notin chars)

\* s.includes(sub)
includes(s, sub) ==
  \E i \in 1..(Len(s) - Len(sub) + 1) : SubSeq(s, i, i + Len(sub) - 1) = sub

\* the number of leading decimal digits of s
RECURSIVE LeadingDigits(_)
LeadingDigits(s) ==
  IF s # <<>> /\ IsDigit(Head(s)) THEN 1 + LeadingDigits(Tail(s)) ELSE 0

\* the value of a sequence of decimal digits
RECURSIVE DigitsValue(_)
DigitsValue(s) ==
  IF s = <<>> THEN 0
  ELSE 10 * DigitsValue(SubSeq(s, 1, Len(s) - 1)) + DigitVal(s[Len(s)])

NaN == [nan |-> TRUE, val |-> 0]

Num(n) == [nan |-> FALSE, val |-> n]

\* parseInt(s, 10): leading whitespace skipped, an optional sign, then the
\* longest run of digits; NaN when there is no digit. The result is a record
\* so that NaN is never compared with a number.
parseInt(s) ==
  LET t == trimStart(s)
      signed == t # <<>> /\ Head(t) \in {"-", "+"}
      body == IF signed THEN Tail(t) ELSE t
      n == LeadingDigits(body)
      v == DigitsValue(SubSeq(body, 1, n))
  IN IF s = undefined \/ n = 0 THEN NaN
     ELSE Num(IF signed /\ Head(t) = "-" THEN 0 - v ELSE v)

\* sum of f[i] over a sequence of integers
RECURSIVE SumSeq(_)
SumSeq(s) == IF s = <<>> THEN 0 ELSE Head(s) + SumSeq(Tail(s))

\* Array.prototype.map on a sequence
MapSeq(s, F(_)) == [i \in 1..Len(s) |-> F(s[i])]

\* Array.prototype.sort with comparator (a, b) => Key(b) - Key(a). The sort
\* is stable (ECMAScript 2019, Node >= 11): the element at index i lands after
\* every element with a larger key and after the equal-keyed ones before it.
SortDescBy(s, Key(_)) ==
  LET rank(i) == 1 + Cardinality({j \in 1..Len(s) :
                       \/ Key(s[j]) > Key(s[i])
                       \/ Key(s[j]) = Key(s[i]) /\ j < i})
  IN [p \in 1..Len(s) |-> s[CHOOSE i \in 1..Len(s) : rank(i) = p]]

(***************************************************************************)
(* JavaScript objects                                                      *)
(*                                                                         *)
(* An object whose keys are computed at run time (a parsed row of a        *)
(* classification or timeline file, an output record with one property per *)
(* classification) is a pair of sequences: its keys in the order of their   *)
(* first assignment, and the values of those keys.                          *)
(***************************************************************************)
EmptyObject == [keys |-> <<>>, vals |-> <<>>]

HasKey(obj, key) == \E i \in DOMAIN obj.keys : obj.keys[i] = key

\* obj[key]: undefined when obj has no such property
GetProp(obj, key) ==
  IF HasKey(obj, key)
  THEN obj.vals[CHOOSE i \in DOMAIN obj.keys : obj.keys[i] = key]
  ELSE undefined

\* obj[key] = value: an existing property keeps its place
SetProp(obj, key, value) ==
  IF HasKey(obj, key)
  THEN [obj EXCEPT !.vals[CHOOSE i \in DOMAIN obj.keys : obj.keys[i] = key] = value]
  ELSE [keys |-> Append(obj.keys, key), vals |-> Append(obj.vals, value)]

\* a key that is a canonical array index ("0", "7", "2015")
IsIndexKey(key) ==
  /\ key # <<>>
  /\ \A i \in DOMAIN key : IsDigit(key[i])
  /\ Len(key) = 1 \/ key[1] # "0"

\* Object.keys: the array-index keys in ascending numeric order, then the
\* other keys in insertion order
ObjectKeys(obj) ==
  LET indexKeys == SelectSeq(obj.keys, IsIndexKey)
      otherKeys == SelectSeq(obj.keys, LAMBDA k : ~IsIndexKey(k))
  IN SortDescBy(indexKeys, LAMBDA k : 0 - DigitsValue(k)) \o otherKeys

\* Object.values, in the order of Object.keys
ObjectValues(obj) ==
  LET keys == ObjectKeys(obj) IN [i \in 1..Len(keys) |-> GetProp(obj, keys[i])]

\* a property value of an output record: a string or a number
StrV(s) == [str |-> s]

NumV(n) == [num |-> n]

IsNumV(v) == "num" \in DOMAIN v

\* truthiness of a property value: a number other than 0, a non-empty string
TruthyV(v) == IF IsNumV(v) THEN v.num # 0 ELSE Truthy(v.str)

\* array.slice(0, limit) left out
sliceAll(s, limit) == s

\* array.slice(0, limit)
slice0(s, limit) == SubSeq(s, 1, IF limit < Len(s) THEN limit ELSE Len(s))

\* arr[i] for a 0-based index i: undefined beyond the end
At(arr, i) == IF i + 1 \in DOMAIN arr THEN arr[i + 1] ELSE undefined

(***************************************************************************)
(* Parsed CSV rows                                                         *)
(*                                                                         *)
(* csv-parse with columns:true yields one object per data row, keyed by    *)
(* the header cells. A row of the geographic and entity files is a         *)
(* function from its header names to its cells.                            *)
(***************************************************************************)
\* row[key]: undefined when the header has no such column
Get(row, key) == IF key \in DOMAIN row THEN row[key] ELSE undefined

\* the literal that stands for JavaScript's null
null == <<"null">>

(***************************************************************************)
(* Geographic route, version with special regions (src/unnamed/part_004)   *)
(***************************************************************************)
FAMILY_COUNTRY == "All Family Country"

PRIORITY_COUNTRY == "Priority Country"

TOTAL == "Total"

\* COUNTRY_DATA: every entry's key is its iso2 field
COUNTRY_DATA == {
  [iso2 |-> <<"U", "S">>, iso3 |-> <<"U", "S", "A">>,
   name |-> <<"U", "n", "i", "t", "e", "d", " ", "S", "t", "a", "t", "e", "s">>],
  [iso2 |-> <<"G", "B">>, iso3 |-> <<"G", "B", "R">>,
   name |-> <<"U", "n", "i", "t", "e", "d", " ", "K", "i", "n", "g", "d", "o", "m">>],
  [iso2 |-> <<"F", "R">>, iso3 |-> <<"F", "R", "A">>,
   name |-> <<"F", "r", "a", "n", "c", "e">>],
  [iso2 |-> <<"D", "E">>, iso3 |-> <<"D", "E", "U">>,
   name |-> <<"G", "e", "r", "m", "a", "n", "y">>],
  [iso2 |-> <<"J", "P">>, iso3 |-> <<"J", "P", "N">>,
   name |-> <<"J", "a", "p", "a", "n">>],
  [iso2 |-> <<"C", "N">>, iso3 |-> <<"C", "H", "N">>,
   name |-> <<"C", "h", "i", "n", "a">>],
  [iso2 |-> <<"I", "N">>, iso3 |-> <<"I", "N", "D">>,
   name |-> <<"I", "n", "d", "i", "a">>],
  [iso2 |-> <<"C", "A">>, iso3 |-> <<"C", "A", "N">>,
   name |-> <<"C", "a", "n", "a", "d", "a">>],
  [iso2 |-> <<"A", "U">>, iso3 |-> <<"A", "U", "S">>,
   name |-> <<"A", "u", "s", "t", "r", "a", "l", "i", "a">>],
  [iso2 |-> <<"N", "O">>, iso3 |-> <<"N", "O", "R">>,
   name |-> <<"N", "o", "r", "w", "a", "y">>],
  [iso2 |-> <<"S", "E">>, iso3 |-> <<"S", "W", "E">>,
   name |-> <<"S", "w", "e", "d", "e", "n">>],
  [iso2 |-> <<"C", "H">>, iso3 |-> <<"C", "H", "E">>,
   name |-> <<"S", "w", "i", "t", "z", "e", "r", "l", "a", "n", "d">>],
  [iso2 |-> <<"N", "L">>, iso3 |-> <<"N", "L", "D">>,
   name |-> <<"N", "e", "t", "h", "e", "r", "l", "a", "n", "d", "s">>],
  [iso2 |-> <<"K", "R">>, iso3 |-> <<"K", "O", "R">>,
   name |-> <<"S", "o", "u", "t", "h", " ", "K", "o", "r", "e", "a">>],
  [iso2 |-> <<"B", "R">>, iso3 |-> <<"B", "R", "A">>,
   name |-> <<"B", "r", "a", "z", "i", "l">>],
  [iso2 |-> <<"M", "X">>, iso3 |-> <<"M", "E", "X">>,
   name |-> <<"M", "e", "x", "i", "c", "o">>],
  [iso2 |-> <<"R", "U">>, iso3 |-> <<"R", "U", "S">>,
   name |-> <<"R", "u", "s", "s", "i", "a">>],
  [iso2 |-> <<"E", "S">>, iso3 |-> <<"E", "S", "P">>,
   name |-> <<"S", "p", "a", "i", "n">>],
  [iso2 |-> <<"I", "T">>, iso3 |-> <<"I", "T", "A">>,
   name |-> <<"I", "t", "a", "l", "y">>],
  [iso2 |-> <<"B", "E">>, iso3 |-> <<"B", "E", "L">>,
   name |-> <<"B", "e", "l", "g", "i", "u", "m">>],
  [iso2 |-> <<"S", "G">>, iso3 |-> <<"S", "G", "P">>,
   name |-> <<"S", "i", "n", "g", "a", "p", "o", "r", "e">>],
  [iso2 |-> <<"H", "K">>, iso3 |-> <<"H", "K", "G">>,
   name |-> <<"H", "o", "n", "g", " ", "K", "o", "n", "g">>],
  [iso2 |-> <<"T", "W">>, iso3 |-> <<"T", "W", "N">>,
   name |-> <<"T", "a", "i", "w", "a", "n">>],
  [iso2 |-> <<"I", "L">>, iso3 |-> <<"I", "S", "R">>,
   name |-> <<"I", "s", "r", "a", "e", "l">>],
  [iso2 |-> <<"I", "E">>, iso3 |-> <<"I", "R", "L">>,
   name |-> <<"I", "r", "e", "l", "a", "n", "d">>],
  [iso2 |-> <<"D", "K">>, iso3 |-> <<"D", "N", "K">>,
   name |-> <<"D", "e", "n", "m", "a", "r", "k">>],
  [iso2 |-> <<"F", "I">>, iso3 |-> <<"F", "I", "N">>,
   name |-> <<"F", "i", "n", "l", "a", "n", "d">>],
  [iso2 |-> <<"I", "S">>, iso3 |-> <<"I", "S", "L">>,
   name |-> <<"I", "c", "e", "l", "a", "n", "d">>],
  [iso2 |-> <<"P", "L">>, iso3 |-> <<"P", "O", "L">>,
   name |-> <<"P", "o", "l", "a", "n", "d">>],
  [iso2 |-> <<"T", "H">>, iso3 |-> <<"T", "H", "A">>,
   name |-> <<"T", "h", "a", "i", "l", "a", "n", "d">>],
  [iso2 |-> <<"M", "Y">>, iso3 |-> <<"M", "Y", "S">>,
   name |-> <<"M", "a", "l", "a", "y", "s", "i", "a">>],
  [iso2 |-> <<"P", "H">>, iso3 |-> <<"P", "H", "L">>,
   name |-> <<"P", "h", "i", "l", "i", "p", "p", "i", "n", "e", "s">>],
  [iso2 |-> <<"I", "D">>, iso3 |-> <<"I", "D", "N">>,
   name |-> <<"I", "n", "d", "o", "n", "e", "s", "i", "a">>],
  [iso2 |-> <<"V", "N">>, iso3 |-> <<"V", "N", "M">>,
   name |-> <<"V", "i", "e", "t", "n", "a", "m">>],
  [iso2 |-> <<"N", "Z">>, iso3 |-> <<"N", "Z", "L">>,
   name |-> <<"N", "e", "w", " ", "Z", "e", "a", "l", "a", "n", "d">>],
  [iso2 |-> <<"Z", "A">>, iso3 |-> <<"Z", "A", "F">>,
   name |-> <<"S", "o", "u", "t", "h", " ", "A", "f", "r", "i", "c", "a">>],
  [iso2 |-> <<"T", "R">>, iso3 |-> <<"T", "U", "R">>,
   name |-> <<"T", "u", "r", "k", "e", "y">>],
  [iso2 |-> <<"G", "R">>, iso3 |-> <<"G", "R", "C">>,
   name |-> <<"G", "r", "e", "e", "c", "e">>],
  [iso2 |-> <<"P", "T">>, iso3 |-> <<"P", "R", "T">>,
   name |-> <<"P", "o", "r", "t", "u", "g", "a", "l">>],
  [iso2 |-> <<"C", "Z">>, iso3 |-> <<"C", "Z", "E">>,
   name |-> <<"C", "z", "e", "c", "h", "i", "a">>],
  [iso2 |-> <<"H", "U">>, iso3 |-> <<"H", "U", "N">>,
   name |-> <<"H", "u", "n", "g", "a", "r", "y">>],
  [iso2 |-> <<"R", "O">>, iso3 |-> <<"R", "O", "U">>,
   name |-> <<"R", "o", "m", "a", "n", "i", "a">>],
  [iso2 |-> <<"B", "G">>, iso3 |-> <<"B", "G", "R">>,
   name |-> <<"B", "u", "l", "g", "a", "r", "i", "a">>],
  [iso2 |-> <<"U", "A">>, iso3 |-> <<"U", "K", "R">>,
   name |-> <<"U", "k", "r", "a", "i", "n", "e">>],
  [iso2 |-> <<"A", "E">>, iso3 |-> <<"A", "R", "E">>,
   name |-> <<"U", "n", "i", "t", "e", "d", " ", "A", "r", "a", "b", " ", "E", "m", "i", "r", "a", "t", "e", "s">>],
  [iso2 |-> <<"S", "A">>, iso3 |-> <<"S", "A", "U">>,
   name |-> <<"S", "a", "u", "d", "i", " ", "A", "r", "a", "b", "i", "a">>],
  [iso2 |-> <<"E", "P">>, iso3 |-> <<"E", "P", "O">>,
   name |-> <<"E", "u", "r", "o", "p", "e", "a", "n", " ", "P", "a", "t", "e", "n", "t", " ", "O", "f", "f", "i", "c", "e">>],
  [iso2 |-> <<"W", "O">>, iso3 |-> <<"W", "O">>,
   name |-> <<"I", "n", "t", "e", "r", "n", "a", "t", "i", "o", "n", "a", "l", " ", "(", "P", "C", "T", ")">>]
}

SPECIAL_REGIONS == {<<"E", "P">>, <<"W", "O">>, <<"P", "C", "T">>}

isSpecialRegion(code) == toUpperCase(code) \in SPECIAL_REGIONS

getCountryInfo(code) ==
  LET upperCode == toUpperCase(code)
  IN IF \E e \in COUNTRY_DATA : e.iso2 = upperCode
     THEN CHOOSE e \in COUNTRY_DATA : e.iso2 = upperCode
     ELSE [iso2 |-> upperCode, iso3 |-> upperCode, name |-> upperCode]

parseTotal(value) ==
  LET parsed == parseInt(OrElse(value, <<"0">>))
  IN IF parsed.nan THEN 0 ELSE parsed.val

TotalOf(item) == item.total

\* what the loop of processCountryData makes of one row that has a code
countryEntry(row, codeKey, totalKey) ==
  [countryInfo |-> getCountryInfo(optTrim(Get(row, codeKey))),
   special |-> isSpecialRegion(optTrim(Get(row, codeKey))),
   total |-> parseTotal(Get(row, totalKey))]

\* the loop without its else: a special region is pushed to both lists
splitCountryRows_noElse(records, codeKey, totalKey) ==
  LET coded == SelectSeq(records, LAMBDA row : Truthy(optTrim(Get(row, codeKey))))
      entries == MapSeq(coded, LAMBDA row : countryEntry(row, codeKey, totalKey))
  IN [validRecords |-> entries,
      specialRegions |-> SelectSeq(entries, LAMBDA e : e.special)]

\* the loop of processCountryData of part_004: rows without a code are
\* skipped, special regions go to specialRegions, every other row to
\* validRecords.
splitCountryRows(records, codeKey, totalKey) ==
  LET coded == SelectSeq(records, LAMBDA row : Truthy(optTrim(Get(row, codeKey))))
      entries == MapSeq(coded, LAMBDA row : countryEntry(row, codeKey, totalKey))
  IN [validRecords |-> SelectSeq(entries, LAMBDA e : ~e.special),
      specialRegions |-> SelectSeq(entries, LAMBDA e : e.special)]

\* processCountryData of part_004: the map keeps the input order, the list
\* and the special regions are sorted by descending total.
processCountryData_p004(records, codeKey, totalKey) ==
  LET split == splitCountryRows(records, codeKey, totalKey)
      specialRegions == MapSeq(split.specialRegions,
                               LAMBDA e : [code |-> e.countryInfo.iso2,
                                           name |-> e.countryInfo.name,
                                           total |-> e.total])
      mapData == MapSeq(split.validRecords,
                        LAMBDA e : [country |-> e.countryInfo.name,
                                    code |-> e.countryInfo.iso3,
                                    total |-> e.total])
      listData == SortDescBy(MapSeq(split.validRecords,
                                    LAMBDA e : [country |-> e.countryInfo.name,
                                                total |-> e.total]),
                             TotalOf)
  IN [dataset |-> [map |-> mapData, list |-> listData],
      specialRegions |-> SortDescBy(specialRegions, TotalOf)]

(***************************************************************************)
(* Geographic route, version with the Nordic subset (src/unnamed/part_005) *)
(***************************************************************************)
ISO_2_TO_ISO_3 == {
  [key |-> <<"U", "S">>, iso3 |-> <<"U", "S", "A">>],
  [key |-> <<"G", "B">>, iso3 |-> <<"G", "B", "R">>],
  [key |-> <<"F", "R">>, iso3 |-> <<"F", "R", "A">>],
  [key |-> <<"D", "E">>, iso3 |-> <<"D", "E", "U">>],
  [key |-> <<"J", "P">>, iso3 |-> <<"J", "P", "N">>],
  [key |-> <<"C", "N">>, iso3 |-> <<"C", "H", "N">>],
  [key |-> <<"I", "N">>, iso3 |-> <<"I", "N", "D">>],
  [key |-> <<"C", "A">>, iso3 |-> <<"C", "A", "N">>],
  [key |-> <<"A", "U">>, iso3 |-> <<"A", "U", "S">>],
  [key |-> <<"N", "O">>, iso3 |-> <<"N", "O", "R">>],
  [key |-> <<"S", "E">>, iso3 |-> <<"S", "W", "E">>],
  [key |-> <<"C", "H">>, iso3 |-> <<"C", "H", "E">>],
  [key |-> <<"N", "L">>, iso3 |-> <<"N", "L", "D">>],
  [key |-> <<"K", "R">>, iso3 |-> <<"K", "O", "R">>],
  [key |-> <<"B", "R">>, iso3 |-> <<"B", "R", "A">>],
  [key |-> <<"M", "X">>, iso3 |-> <<"M", "E", "X">>],
  [key |-> <<"R", "U">>, iso3 |-> <<"R", "U", "S">>],
  [key |-> <<"E", "S">>, iso3 |-> <<"E", "S", "P">>],
  [key |-> <<"I", "T">>, iso3 |-> <<"I", "T", "A">>],
  [key |-> <<"B", "E">>, iso3 |-> <<"B", "E", "L">>],
  [key |-> <<"S", "G">>, iso3 |-> <<"S", "G", "P">>],
  [key |-> <<"H", "K">>, iso3 |-> <<"H", "K", "G">>],
  [key |-> <<"T", "W">>, iso3 |-> <<"T", "W", "N">>],
  [key |-> <<"I", "L">>, iso3 |-> <<"I", "S", "R">>],
  [key |-> <<"I", "E">>, iso3 |-> <<"I", "R", "L">>],
  [key |-> <<"D", "K">>, iso3 |-> <<"D", "N", "K">>],
  [key |-> <<"F", "I">>, iso3 |-> <<"F", "I", "N">>],
  [key |-> <<"P", "L">>, iso3 |-> <<"P", "O", "L">>],
  [key |-> <<"T", "H">>, iso3 |-> <<"T", "H", "A">>],
  [key |-> <<"M", "Y">>, iso3 |-> <<"M", "Y", "S">>],
  [key |-> <<"P", "H">>, iso3 |-> <<"P", "H", "L">>],
  [key |-> <<"I", "D">>, iso3 |-> <<"I", "D", "N">>],
  [key |-> <<"V", "N">>, iso3 |-> <<"V", "N", "M">>],
  [key |-> <<"N", "Z">>, iso3 |-> <<"N", "Z", "L">>],
  [key |-> <<"Z", "A">>, iso3 |-> <<"Z", "A", "F">>],
  [key |-> <<"T", "R">>, iso3 |-> <<"T", "U", "R">>],
  [key |-> <<"G", "R">>, iso3 |-> <<"G", "R", "C">>],
  [key |-> <<"P", "T">>, iso3 |-> <<"P", "R", "T">>],
  [key |-> <<"C", "Z">>, iso3 |-> <<"C", "Z", "E">>],
  [key |-> <<"H", "U">>, iso3 |-> <<"H", "U", "N">>],
  [key |-> <<"R", "O">>, iso3 |-> <<"R", "O", "U">>],
  [key |-> <<"B", "G">>, iso3 |-> <<"B", "G", "R">>],
  [key |-> <<"U", "A">>, iso3 |-> <<"U", "K", "R">>],
  [key |-> <<"A", "E">>, iso3 |-> <<"A", "R", "E">>],
  [key |-> <<"S", "A">>, iso3 |-> <<"S", "A", "U">>]
}

countryNames == {
  [key |-> <<"E", "P">>,
   name |-> <<"E", "u", "r", "o", "p", "e", "a", "n", " ", "P", "a", "t", "e", "n", "t", " ", "O", "f", "f", "i", "c", "e", " ", "(", "N", "o", " ", "c", "o", "u", "n", "t", "r", "y", ")">>],
  [key |-> <<"W", "O">>,
   name |-> <<"I", "n", "t", "e", "r", "n", "a", "t", "i", "o", "n", "a", "l", " ", "(", "P", "C", "T", ")", " ", "(", "N", "o", " ", "c", "o", "u", "n", "t", "r", "y", ")">>],
  [key |-> <<"U", "S">>,
   name |-> <<"U", "n", "i", "t", "e", "d", " ", "S", "t", "a", "t", "e", "s">>],
  [key |-> <<"G", "B">>,
   name |-> <<"U", "n", "i", "t", "e", "d", " ", "K", "i", "n", "g", "d", "o", "m">>],
  [key |-> <<"F", "R">>,
   name |-> <<"F", "r", "a", "n", "c", "e">>],
  [key |-> <<"D", "E">>,
   name |-> <<"G", "e", "r", "m", "a", "n", "y">>],
  [key |-> <<"J", "P">>,
   name |-> <<"J", "a", "p", "a", "n">>],
  [key |-> <<"C", "N">>,
   name |-> <<"C", "h", "i", "n", "a">>],
  [key |-> <<"I", "N">>,
   name |-> <<"I", "n", "d", "i", "a">>],
  [key |-> <<"C", "A">>,
   name |-> <<"C", "a", "n", "a", "d", "a">>],
  [key |-> <<"A", "U">>,
   name |-> <<"A", "u", "s", "t", "r", "a", "l", "i", "a">>],
  [key |-> <<"N", "O">>,
   name |-> <<"N", "o", "r", "w", "a", "y">>],
  [key |-> <<"S", "E">>,
   name |-> <<"S", "w", "e", "d", "e", "n">>],
  [key |-> <<"C", "H">>,
   name |-> <<"S", "w", "i", "t", "z", "e", "r", "l", "a", "n", "d">>],
  [key |-> <<"N", "L">>,
   name |-> <<"N", "e", "t", "h", "e", "r", "l", "a", "n", "d", "s">>],
  [key |-> <<"K", "R">>,
   name |-> <<"S", "o", "u", "t", "h", " ", "K", "o", "r", "e", "a">>],
  [key |-> <<"B", "R">>,
   name |-> <<"B", "r", "a", "z", "i", "l">>],
  [key |-> <<"M", "X">>,
   name |-> <<"M", "e", "x", "i", "c", "o">>],
  [key |-> <<"R", "U">>,
   name |-> <<"R", "u", "s", "s", "i", "a">>],
  [key |-> <<"E", "S">>,
   name |-> <<"S", "p", "a", "i", "n">>],
  [key |-> <<"I", "T">>,
   name |-> <<"I", "t", "a", "l", "y">>],
  [key |-> <<"B", "E">>,
   name |-> <<"B", "e", "l", "g", "i", "u", "m">>],
  [key |-> <<"S", "G">>,
   name |-> <<"S", "i", "n", "g", "a", "p", "o", "r", "e">>],
  [key |-> <<"H", "K">>,
   name |-> <<"H", "o", "n", "g", " ", "K", "o", "n", "g">>],
  [key |-> <<"T", "W">>,
   name |-> <<"T", "a", "i", "w", "a", "n">>],
  [key |-> <<"I", "L">>,
   name |-> <<"I", "s", "r", "a", "e", "l">>],
  [key |-> <<"I", "E">>,
   name |-> <<"I", "r", "e", "l", "a", "n", "d">>],
  [key |-> <<"D", "K">>,
   name |-> <<"D", "e", "n", "m", "a", "r", "k">>],
  [key |-> <<"F", "I">>,
   name |-> <<"F", "i", "n", "l", "a", "n", "d">>],
  [key |-> <<"I", "S">>,
   name |-> <<"I", "c", "e", "l", "a", "n", "d">>],
  [key |-> <<"P", "L">>,
   name |-> <<"P", "o", "l", "a", "n", "d">>],
  [key |-> <<"T", "H">>,
   name |-> <<"T", "h", "a", "i", "l", "a", "n", "d">>],
  [key |-> <<"M", "Y">>,
   name |-> <<"M", "a", "l", "a", "y", "s", "i", "a">>],
  [key |-> <<"P", "H">>,
   name |-> <<"P", "h", "i", "l", "i", "p", "p", "i", "n", "e", "s">>],
  [key |-> <<"I", "D">>,
   name |-> <<"I", "n", "d", "o", "n", "e", "s", "i", "a">>],
  [key |-> <<"V", "N">>,
   name |-> <<"V", "i", "e", "t", "n", "a", "m">>],
  [key |-> <<"N", "Z">>,
   name |-> <<"N", "e", "w", " ", "Z", "e", "a", "l", "a", "n", "d">>],
  [key |-> <<"Z", "A">>,
   name |-> <<"S", "o", "u", "t", "h", " ", "A", "f", "r", "i", "c", "a">>],
  [key |-> <<"T", "R">>,
   name |-> <<"T", "u", "r", "k", "e", "y">>],
  [key |-> <<"G", "R">>,
   name |-> <<"G", "r", "e", "e", "c", "e">>],
  [key |-> <<"P", "T">>,
   name |-> <<"P", "o", "r", "t", "u", "g", "a", "l">>],
  [key |-> <<"C", "Z">>,
   name |-> <<"C", "z", "e", "c", "h", "i", "a">>],
  [key |-> <<"H", "U">>,
   name |-> <<"H", "u", "n", "g", "a", "r", "y">>],
  [key |-> <<"R", "O">>,
   name |-> <<"R", "o", "m", "a", "n", "i", "a">>],
  [key |-> <<"B", "G">>,
   name |-> <<"B", "u", "l", "g", "a", "r", "i", "a">>],
  [key |-> <<"U", "A">>,
   name |-> <<"U", "k", "r", "a", "i", "n", "e">>],
  [key |-> <<"A", "E">>,
   name |-> <<"U", "n", "i", "t", "e", "d", " ", "A", "r", "a", "b", " ", "E", "m", "i", "r", "a", "t", "e", "s">>],
  [key |-> <<"S", "A">>,
   name |-> <<"S", "a", "u", "d", "i", " ", "A", "r", "a", "b", "i", "a">>]
}

NORDIC_COUNTRY_CODES == <<<<"D", "K">>, <<"F", "I">>, <<"I", "S">>, <<"N", "O">>,
                          <<"S", "E">>>>

iso2ToIso3(code) ==
  LET cleaned == toUpperCase(trim(code))
  IN IF \E e \in ISO_2_TO_ISO_3 : e.key = cleaned
     THEN (CHOOSE e \in ISO_2_TO_ISO_3 : e.key = cleaned).iso3
     ELSE null

getCountryName(code) ==
  IF \E e \in countryNames : e.key = toUpperCase(code)
  THEN (CHOOSE e \in countryNames : e.key = toUpperCase(code)).name
  ELSE code

\* processCountryData of part_005: a row without a code or with a count that
\* is not a number maps to null and is filtered out; no special-region split.
processCountryData_p005(records, countryField) ==
  LET code(row) == optTrim(Get(row, countryField))
      total(row) == parseInt(OrElse(OrElse(Get(row, "Total"), Get(row, "total")),
                                    <<"0">>))
      kept == SelectSeq(records, LAMBDA row : Truthy(code(row)) /\ ~total(row).nan)
  IN MapSeq(kept, LAMBDA row : [countryCode |-> code(row),
                                countryName |-> getCountryName(code(row)),
                                iso3 |-> iso2ToIso3(code(row)),
                                total |-> total(row).val])

SeqContains(s, x) == \E i \in DOMAIN s : s[i] = x

filterNordicData(countries) ==
  SelectSeq(countries, LAMBDA item : SeqContains(NORDIC_COUNTRY_CODES, item.countryCode))

\* the loop "Ensure all Nordic countries are represented" of getGeographicData,
\* for one of the two lists
RECURSIVE ensureNordic(_, _)
ensureNordic(nordicData, codes) ==
  IF codes = <<>> THEN nordicData
  ELSE LET code == Head(codes)
           found == \E i \in DOMAIN nordicData : nordicData[i].countryCode = code
       IN ensureNordic(IF found THEN nordicData
                       ELSE Append(nordicData, [countryCode |-> code,
                                                countryName |-> getCountryName(code),
                                                iso3 |-> iso2ToIso3(code),
                                                total |-> 0]),
                       Tail(codes))

(***************************************************************************)
(* Classification route (src/app/api/classification/route.ts, 1-375)       *)
(***************************************************************************)
\* LIMITS
TOP_CLASSIFICATIONS == 5

TOP_OWNERS == 15

Quotes == {"\"", "'"}

\* s.replace(/^["']|["']$/g, ''): one quote off the start, one off the end
stripQuotes(s) ==
  LET a == IF s # <<>> /\ Head(s) \in Quotes THEN Tail(s) ELSE s
  IN IF a # <<>> /\ a[Len(a)] \in Quotes THEN SubSeq(a, 1, Len(a) - 1) ELSE a

cleanOwnerName(name) == IF ~Truthy(name) THEN <<>> ELSE trim(stripQuotes(name))

\* s.split(sep)[0]: the part of s before the first sep
RECURSIVE beforeFirst(_, _)
beforeFirst(s, sep) ==
  IF s = <<>> \/ Head(s) = sep THEN <<>>
  ELSE <<Head(s)>> \o beforeFirst(Tail(s), sep)

cleanClassificationName(name) ==
  IF ~Truthy(name) THEN <<>>
  ELSE LET cleaned == trim(stripQuotes(name))
       IN IF includes(cleaned, <<":">>) THEN trim(beforeFirst(cleaned, ":"))
          ELSE cleaned

\* parseNumber on a cell of a parsed row (a string, or undefined)
parseNumber(value) ==
  IF ~Truthy(value) THEN 0
  ELSE LET num == parseInt(trim(RemoveChars(value, {",", "\"", "'"})))
       IN IF num.nan THEN 0 ELSE num.val

CURRENT_OWNER_KEY == <<"c", "u", "r", "r", "e", "n", "t", "O", "w", "n", "e", "r">>

TOTAL_KEY == <<"t", "o", "t", "a", "l">>

\* the rows that are neither empty, nor separators, nor repeated headers
validOwnerRecords(records) ==
  SelectSeq(records, LAMBDA row :
    LET firstValue == At(ObjectValues(row), 0)
    IN /\ Truthy(firstValue)
       /\ ~includes(firstValue, <<"-", "-", "-">>)
       /\ ~includes(firstValue, <<"C", "u", "r", "r", "e", "n", "t", " ", "O", "w", "n", "e", "r">>))

\* the column totals taken over the returned rows only
classificationTotals_returnedRows(validRecords, keys) ==
  LET classKeys == SubSeq(keys, 3, Len(keys))
      rows == slice0(validRecords, TOP_OWNERS)
      add[i \in 0..Len(classKeys)] ==
        IF i = 0 THEN EmptyObject
        ELSE SetProp(add[i - 1], classKeys[i],
               SumSeq([r \in 1..Len(rows) |->
                         parseNumber(GetProp(rows[r], classKeys[i]))]))
  IN add[Len(classKeys)]

\* classificationTotals: one entry per column from the third on, summed over
\* the valid rows
classificationTotals(validRecords, keys) ==
  LET classKeys == SubSeq(keys, 3, Len(keys))
      add[i \in 0..Len(classKeys)] ==
        IF i = 0 THEN EmptyObject
        ELSE SetProp(add[i - 1], classKeys[i],
               SumSeq([r \in 1..Len(validRecords) |->
                         parseNumber(GetProp(validRecords[r], classKeys[i]))]))
  IN add[Len(classKeys)]

\* the keys of the classLimit largest column totals
topClassifications(totals, classLimit) ==
  LET keys == ObjectKeys(totals)
  IN slice0(SortDescBy(keys, LAMBDA k : GetProp(totals, k)), classLimit)

\* the output record of one row
cleanedOwnerRow(row, keys, top) ==
  LET base == SetProp(SetProp(EmptyObject, CURRENT_OWNER_KEY,
                        StrV(cleanOwnerName(GetProp(row, At(keys, 0))))),
                      TOTAL_KEY, NumV(parseNumber(GetProp(row, At(keys, 1)))))
      add[i \in 0..Len(top)] ==
        IF i = 0 THEN base
        ELSE LET cleanKey == cleanClassificationName(top[i])
             IN IF Truthy(cleanKey)
                THEN SetProp(add[i - 1], cleanKey, NumV(parseNumber(GetProp(row, top[i]))))
                ELSE add[i - 1]
  IN add[Len(top)]

processOwnerClassification(records, ownerLimit, classLimit) ==
  LET validRecords == validOwnerRecords(records)
      keys == ObjectKeys(validRecords[1])
      top == topClassifications(classificationTotals(validRecords, keys), classLimit)
      sliced == slice0(validRecords, ownerLimit)
      mapped == [i \in 1..Len(sliced) |-> cleanedOwnerRow(sliced[i], keys, top)]
  IN IF Len(records) = 0 \/ Len(validRecords) = 0 THEN <<>>
     ELSE SelectSeq(mapped, LAMBDA item :
            /\ TruthyV(GetProp(item, CURRENT_OWNER_KEY))
            /\ GetProp(item, TOTAL_KEY).num > 0)

\* LIMITS, continued
FULL_RECORDS == 10

MIN_YEAR == 2010

MAX_YEAR == 2025

CLASSIFICATION_KEY == <<"c", "l", "a", "s", "s", "i", "f", "i", "c", "a", "t", "i", "o", "n">>

YEAR_KEY == <<"y", "e", "a", "r">>

\* the first `limit` rows as {classification, total}, less those without a
\* name or without patents
processFullClassification(records, limit) ==
  LET sliced == slice0(records, limit)
      mapped == [i \in 1..Len(sliced) |->
                   LET keys == ObjectKeys(sliced[i])
                   IN [classification |->
                         cleanClassificationName(GetProp(sliced[i], At(keys, 0))),
                       total |-> parseNumber(GetProp(sliced[i], At(keys, 1)))]]
  IN SelectSeq(mapped, LAMBDA item : Truthy(item.classification) /\ item.total > 0)

\* the output record of one row of a classification-by-year file
cleanedYearRow(row) ==
  LET keys == ObjectKeys(row)
      year == parseNumber(GetProp(row, At(keys, 0)))
      add[i \in 1..Len(keys)] ==
        IF i = 1 THEN SetProp(EmptyObject, YEAR_KEY, NumV(year))
        ELSE LET classKey == cleanClassificationName(keys[i])
             IN IF Truthy(classKey)
                THEN SetProp(add[i - 1], classKey, NumV(parseNumber(GetProp(row, keys[i]))))
                ELSE add[i - 1]
  IN add[Len(keys)]

\* the rows whose year is within LIMITS, left in the order of the file
processYearClassification_fileOrder(records) ==
  LET inRange == SelectSeq(records, LAMBDA row :
                   LET year == parseNumber(GetProp(row, At(ObjectKeys(row), 0)))
                   IN ~(year < MIN_YEAR \/ year > MAX_YEAR))
  IN [i \in 1..Len(inRange) |-> cleanedYearRow(inRange[i])]

\* the rows whose year is within LIMITS, in ascending order of year
processYearClassification(records) ==
  LET inRange == SelectSeq(records, LAMBDA row :
                   LET year == parseNumber(GetProp(row, At(ObjectKeys(row), 0)))
                   IN ~(year < MIN_YEAR \/ year > MAX_YEAR))
      mapped == [i \in 1..Len(inRange) |-> cleanedYearRow(inRange[i])]
  IN SortDescBy(mapped, LAMBDA item : 0 - GetProp(item, YEAR_KEY).num)

(***************************************************************************)
(* Timeline route (src/app/api/classification/route.ts, 829-1152)          *)
(***************************************************************************)
YEAR_RANGE_MIN == 2000

YEAR_RANGE_MAX == 2030

isValidOwnerName_caseSensitive(owner) ==
  /\ Truthy(owner)
  /\ trim(owner) \notin {<<>>, <<"n", "o", "n", "e">>, <<"n", "u", "l", "l">>, <<"u", "n", "k", "n", "o", "w", "n">>}

isValidOwnerName(owner) ==
  /\ Truthy(owner)
  /\ LET normalized == toLowerCase(trim(owner))
     IN normalized \notin {<<>>, <<"n", "o", "n", "e">>, <<"n", "u", "l", "l">>, <<"u", "n", "k", "n", "o", "w", "n">>}

\* the year columns of the first row, in ascending order, and the owner column
extractYearsAndOwnerKey(firstRow) ==
  LET allKeys == ObjectKeys(firstRow)
      isYear(k) == LET year == parseInt(trim(k))
                   IN ~year.nan /\ year.val >= YEAR_RANGE_MIN /\ year.val <= YEAR_RANGE_MAX
      yearKeys == SortDescBy(SelectSeq(allKeys, isYear), LAMBDA k : 0 - parseInt(k).val)
      nonYearKeys == SelectSeq(allKeys, LAMBDA k : ~SeqContains(yearKeys, k))
      named == SelectSeq(nonYearKeys, LAMBDA k : includes(toLowerCase(k), <<"o", "w", "n", "e", "r">>))
  IN IF Len(yearKeys) = 0
     THEN [threw |-> TRUE, message |-> "No valid year columns found in timeline data",
           years |-> <<>>, ownerKey |-> undefined]
     ELSE IF Len(nonYearKeys) = 0
     THEN [threw |-> TRUE, message |-> "No owner column found in timeline data",
           years |-> <<>>, ownerKey |-> undefined]
     ELSE [threw |-> FALSE, message |-> "", years |-> yearKeys,
           ownerKey |-> IF Len(named) > 0 THEN named[1] ELSE nonYearKeys[1]]

\* row[ownerKey]?.toString().replace(/"/g, '').trim()
ownerOfRow(row, ownerKey) ==
  LET cell == GetProp(row, ownerKey)
  IN IF cell = undefined THEN undefined ELSE trim(RemoveChars(cell, {"\""}))

\* the points one row contributes: none for an invalid owner, else one per
\* year column whose count is a positive number
pointsOfRow(row, years, ownerKey) ==
  LET owner == ownerOfRow(row, ownerKey)
      cand == [i \in 1..Len(years) |->
                 [owner |-> owner,
                  year |-> parseInt(years[i]),
                  count |-> parseInt(OrElse(GetProp(row, years[i]), <<"0">>))]]
      pushed == SelectSeq(cand, LAMBDA p : ~p.count.nan /\ p.count.val > 0 /\ ~p.year.nan)
  IN IF ~isValidOwnerName(owner) THEN <<>>
     ELSE [i \in 1..Len(pushed) |->
             [owner |-> owner, year |-> pushed[i].year.val, count |-> pushed[i].count.val]]

RECURSIVE convertToLongFormat(_, _, _)
convertToLongFormat(records, years, ownerKey) ==
  IF records = <<>> THEN <<>>
  ELSE pointsOfRow(Head(records), years, ownerKey)
         \o convertToLongFormat(Tail(records), years, ownerKey)

(***************************************************************************)
(* The data directory                                                      *)
(*                                                                         *)
(* files maps a path below data/ to the state of that file: missing, ok    *)
(* (readable, parsing to rows) or unreadable (it exists, but readFileSync  *)
(* or csv-parse throws on it). bom tells whether the content starts with   *)
(* a byte-order mark; rows are the records of the content after the mark.  *)
(***************************************************************************)
MissingFile == [status |-> "missing", rows |-> <<>>, bom |-> FALSE]

UnreadableFile == [status |-> "unreadable", rows |-> <<>>, bom |-> FALSE]

OkFile(rows) == [status |-> "ok", rows |-> rows, bom |-> FALSE]

\* fs.existsSync
existsSync(path) == files[path].status # "missing"

\* what findCsvFile returns when no candidate exists
NOT_FOUND == "null"

\* the result of a call that may throw
Threw(message) == [threw |-> TRUE, message |-> message, records |-> <<>>]

Returned(records) == [threw |-> FALSE, message |-> "", records |-> records]

\* removeBOM: one leading U+FEFF is cut off
removeBOM(content) == [content EXCEPT !.bom = FALSE]

\* the header cell that heads the first column of a geographic file
FirstHeader(row) == CHOOSE h \in DOMAIN row : h \in {FAMILY_COUNTRY, PRIORITY_COUNTRY}

\* a header cell with U+FEFF in front of it
BomHeader(h) == "<U+FEFF>" \o h

\* a record of a content that starts with U+FEFF: csv-parse (option bom not
\* set) takes the mark for the first character of the first header cell, and
\* its trim option leaves it there, so the first key of every record has it
bomRecord(row) ==
  IF "keys" \in DOMAIN row
  THEN IF row.keys = <<>> THEN row
       ELSE [row EXCEPT !.keys[1] = <<BOM>> \o @]
  ELSE [h \in (DOMAIN row \ {FirstHeader(row)}) \cup {BomHeader(FirstHeader(row))} |->
          IF h = BomHeader(FirstHeader(row)) THEN row[FirstHeader(row)] ELSE row[h]]

\* parse(content, {columns: true, skip_empty_lines: true, trim: true})
parseCsv(content) ==
  IF content.bom THEN [i \in 1..Len(content.rows) |-> bomRecord(content.rows[i])]
  ELSE content.rows

\* fs.readFileSync followed by parse(...): throws on an unreadable file
readAndParse(path) ==
  IF files[path].status = "ok" THEN Returned(parseCsv(files[path]))
  ELSE Threw("read or parse error")

\* fs.readFileSync, removeBOM, then parse(...)
readStripAndParse(path) ==
  IF files[path].status = "ok" THEN Returned(parseCsv(removeBOM(files[path])))
  ELSE Threw("read or parse error")

\* the alternates are not looked at
firstExisting_canonicalOnly(paths) ==
  IF paths # <<>> /\ existsSync(Head(paths)) THEN Head(paths) ELSE NOT_FOUND

\* the first candidate, in order, that exists
RECURSIVE firstExisting(_)
firstExisting(paths) ==
  IF paths = <<>> THEN NOT_FOUND
  ELSE IF existsSync(Head(paths)) THEN Head(paths)
  ELSE firstExisting(Tail(paths))

\* the result of an aggregation that a request has not run yet, or has run
NotRun == [done |-> FALSE, rows |-> <<>>]

Done(rows) == [done |-> TRUE, rows |-> rows]

(***************************************************************************)
(* Responses                                                               *)
(***************************************************************************)
NoResponse == [endpoint |-> "none"]

CACHE_CONTROL == [public |-> TRUE, sMaxage |-> 3600, staleWhileRevalidate |-> 86400]

NoHeaders == [public |-> FALSE, sMaxage |-> 0, staleWhileRevalidate |-> 0]

\* NextResponse.json(body, {status, headers}); the status defaults to 200
JsonResponse(endpoint, body, status, headers) ==
  [endpoint |-> endpoint, status |-> status, headers |-> headers, body |-> body]

Success(payload) == [success |-> TRUE, data |-> payload]

Failure(message) == [success |-> FALSE, error |-> message]

(***************************************************************************)
(* Geographic route handlers                                               *)
(***************************************************************************)
FAMILY_FILE == "raw/All_Family_Country_Map.csv"

FAMILY_FILE_ALT == "raw/All_family_Country_Map.csv"

PRIORITY_FILE == "raw/Priority_Country_Map.csv"

PRIORITY_FILE_ALT == "raw/Priority_country_Map.csv"

TRENDS_FILE == "raw/Patenting_Trends.csv"

\* loadCsvData of part_004: throws when the file is missing, unreadable or
\* malformed
loadCsvData_p004(path) ==
  IF ~existsSync(path) THEN Threw("Required file not found")
  ELSE readStripAndParse(path)

\* getGeographicData of part_004: the first throw of a required file ends in
\* the catch clause; the filing trends are optional.
geographicResult_p004(family, priority, trends) ==
  LET familyProcessed == processCountryData_p004(family.records, FAMILY_COUNTRY, TOTAL)
      priorityProcessed ==
        processCountryData_p004(priority.records, PRIORITY_COUNTRY, TOTAL)
  IN IF family.threw THEN Failure(family.message)
     ELSE IF priority.threw THEN Failure(priority.message)
     ELSE Success([familyData |-> familyProcessed.dataset,
                   priorityData |-> priorityProcessed.dataset,
                   familySpecialRegions |-> familyProcessed.specialRegions,
                   prioritySpecialRegions |-> priorityProcessed.specialRegions,
                   countries |-> familyProcessed.dataset.list,
                   worldMap |-> familyProcessed.dataset.map,
                   filingTrends |-> IF trends.threw THEN <<>> ELSE trends.records])

\* the three loads in the order of the handler
getGeographicData_p004 ==
  geographicResult_p004(loadCsvData_p004(FAMILY_FILE), loadCsvData_p004(PRIORITY_FILE),
                        loadCsvData_p004(TRENDS_FILE))

findCsvFile_p005(filename, alternates) == firstExisting(<<filename>> \o alternates)

loadCsvData_p005(path) == readAndParse(path)

\* getGeographicData of part_005: a file that is missing or fails to load
\* leaves its record list empty; only two empty lists end in the catch clause.
getGeographicData_p005 ==
  LET familyFile == findCsvFile_p005(FAMILY_FILE, <<FAMILY_FILE_ALT>>)
      priorityFile == findCsvFile_p005(PRIORITY_FILE, <<PRIORITY_FILE_ALT>>)
      familyRecords == IF familyFile = NOT_FOUND THEN <<>>
                       ELSE loadCsvData_p005(familyFile).records
      priorityRecords == IF priorityFile = NOT_FOUND THEN <<>>
                         ELSE loadCsvData_p005(priorityFile).records
      familyData == processCountryData_p005(familyRecords, FAMILY_COUNTRY)
      priorityData == processCountryData_p005(priorityRecords, PRIORITY_COUNTRY)
  IN IF Len(familyRecords) = 0 /\ Len(priorityRecords) = 0
     THEN Failure("No country data files found")
     ELSE [success |-> TRUE,
           data |-> [familyData |-> familyData,
                     priorityData |-> priorityData,
                     nordicFamilyData |->
                       ensureNordic(filterNordicData(familyData), NORDIC_COUNTRY_CODES),
                     nordicPriorityData |->
                       ensureNordic(filterNordicData(priorityData), NORDIC_COUNTRY_CODES)],
           fileInfo |-> [familyFile |-> familyFile, priorityFile |-> priorityFile]]

(***************************************************************************)
(* Classification route handler                                            *)
(***************************************************************************)
IPC_FULL_FILE == "raw/IPC_Full.csv"

CPC_FULL_FILE == "raw/CPC_Full.csv"

IPC_OWNER_FILE == "raw/Current-Owner_IPC-Full.csv"

CPC_OWNER_FILE == "raw/Current-Owner_CPC-Full.csv"

CPC_YEAR_FILE == "processed/CPC_Classifications_vs_Year.csv"

IPC_YEAR_FILE == "processed/IPC_Classifications_vs_Year.csv"

IPC_FULL_ALTERNATES == <<"raw/ipc_full.csv", "raw/IPC_full.csv">>

CPC_FULL_ALTERNATES == <<"raw/cpc_full.csv", "raw/CPC_full.csv">>

IPC_OWNER_ALTERNATES ==
  <<"raw/current_owner_ipc_full.csv", "raw/Current-Owner_IPC_Full.csv",
    "raw/IPC_Assignee.csv">>

CPC_OWNER_ALTERNATES ==
  <<"raw/current_owner_cpc_full.csv", "raw/Current-Owner_CPC_Full.csv",
    "raw/CPC_Assignee.csv">>

CPC_YEAR_ALTERNATES ==
  <<"processed/application_year_cpc_full.csv", "processed/Application-Year_CPC-Full.csv",
    "processed/Application-Year _CPC-Full.csv">>

IPC_YEAR_ALTERNATES ==
  <<"processed/application_year_ipc_full.csv", "processed/Application-Year_IPC-Full.csv",
    "processed/Application-Year _IPC-Full.csv">>

findCsvFile(filename, alternates) == firstExisting(<<filename>> \o alternates)

loadCsvData(path) == readStripAndParse(path)

ClassSections == {"ipcFull", "cpcFull", "ipcByOwner", "cpcByOwner", "cpcByYear", "ipcByYear"}

\* the file name each section passes to findCsvFile, and its alternates
FileOfSection(section) ==
  CASE section = "ipcFull" -> IPC_FULL_FILE
    [] section = "cpcFull" -> CPC_FULL_FILE
    [] section = "ipcByOwner" -> IPC_OWNER_FILE
    [] section = "cpcByOwner" -> CPC_OWNER_FILE
    [] section = "cpcByYear" -> CPC_YEAR_FILE
    [] section = "ipcByYear" -> IPC_YEAR_FILE

AlternatesOfSection(section) ==
  CASE section = "ipcFull" -> IPC_FULL_ALTERNATES
    [] section = "cpcFull" -> CPC_FULL_ALTERNATES
    [] section = "ipcByOwner" -> IPC_OWNER_ALTERNATES
    [] section = "cpcByOwner" -> CPC_OWNER_ALTERNATES
    [] section = "cpcByYear" -> CPC_YEAR_ALTERNATES
    [] section = "ipcByYear" -> IPC_YEAR_ALTERNATES

\* the process function each section applies to its records
processSection(section, records) ==
  CASE section \in {"ipcFull", "cpcFull"} ->
         processFullClassification(records, FULL_RECORDS)
    [] section \in {"ipcByOwner", "cpcByOwner"} ->
         processOwnerClassification(records, TOP_OWNERS, TOP_CLASSIFICATIONS)
    [] section \in {"cpcByYear", "ipcByYear"} ->
         processYearClassification(records)

\* one section of getClassificationData:
\*   if (file) { try { data.x = process(await loadCsvData(file)) } catch { } }
\* the section stays the empty list it was initialised to when no candidate
\* exists or the load throws
sectionData(section) ==
  LET file == findCsvFile(FileOfSection(section), AlternatesOfSection(section))
      loaded == loadCsvData(file)
  IN IF file = NOT_FOUND THEN <<>>
     ELSE IF loaded.threw THEN <<>>
     ELSE processSection(section, loaded.records)

\* Object.values(data).some(arr => arr.length > 0) left out
hasData_always(data) == TRUE

\* Object.values(data).some(arr => arr.length > 0)
hasData(data) == \E section \in DOMAIN data : Len(data[section]) > 0

\* the six sections are filled one after the other, each from its own file
getClassificationData ==
  LET data == [section \in ClassSections |-> sectionData(section)]
  IN IF ~hasData(data)
     THEN Failure("No classification data files found or all files are empty")
     ELSE Success(data)

(***************************************************************************)
(* Entity route (src/app/api/entity/route.ts)                              *)
(***************************************************************************)
\* findCsvFile of the entity route: any directory, no check of the directory
findCsvFile_entity(filename, alternates) == firstExisting(<<filename>> \o alternates)

\* loadCsvData of the entity route
loadCsvData_entity(path) == readStripAndParse(path)

\* the key trimmed, in the casing of the header
normalizeKey_caseSensitive(key) == trim(key)

normalizeKey(key) == toLowerCase(trim(key))

\* for (const key in item) normalizedItem[normalizeKey(key)] = item[key]
normalizedItem(item) ==
  LET keys == ObjectKeys(item)
      add[i \in 0..Len(keys)] ==
        IF i = 0 THEN EmptyObject
        ELSE SetProp(add[i - 1], normalizeKey(keys[i]), GetProp(item, keys[i]))
  IN add[Len(keys)]

COUNTRY_KEY == <<"c", "o", "u", "n", "t", "r", "y">>

ASSIGNEE_KEY == <<"a", "s", "s", "i", "g", "n", "e", "e">>

INVENTOR_KEY == <<"i", "n", "v", "e", "n", "t", "o", "r">>

COUNT_KEY == <<"c", "o", "u", "n", "t">>

\* the record of one row, with the count as parseInt gives it
assigneeRecord(item) ==
  LET normalized == normalizedItem(item)
  IN [country |-> OrElse(optTrim(GetProp(normalized, COUNTRY_KEY)), <<>>),
      assignee |-> OrElse(optTrim(GetProp(normalized, ASSIGNEE_KEY)), <<"U", "n", "k", "n", "o", "w", "n">>),
      count |-> parseInt(OrElse(GetProp(normalized, COUNT_KEY), <<"0">>))]

normalizeAssigneeData(rawData) ==
  LET records == [i \in 1..Len(rawData) |-> assigneeRecord(rawData[i])]
      pushed == SelectSeq(records, LAMBDA r :
                  Truthy(r.assignee) /\ ~r.count.nan /\ r.count.val > 0)
      result == [i \in 1..Len(pushed) |->
                   [country |-> pushed[i].country, assignee |-> pushed[i].assignee,
                    count |-> pushed[i].count.val]]
  IN SortDescBy(result, LAMBDA r : r.count)

\* the inventor as the cell has it, blanks included
inventorOfRow_untrimmed(item) ==
  [inventor |-> OrElse(GetProp(normalizedItem(item), INVENTOR_KEY), <<>>),
   country |-> OrElse(optTrim(GetProp(normalizedItem(item), COUNTRY_KEY)), <<>>)]

\* the inventor and the country of one row
inventorOfRow(item) ==
  [inventor |-> OrElse(optTrim(GetProp(normalizedItem(item), INVENTOR_KEY)), <<>>),
   country |-> OrElse(optTrim(GetProp(normalizedItem(item), COUNTRY_KEY)), <<>>)]

\* inventorMap after the rows: the entries in the order of their insertion
RECURSIVE inventorMap(_)
inventorMap(rawData) ==
  IF rawData = <<>> THEN <<>>
  ELSE LET before == inventorMap(SubSeq(rawData, 1, Len(rawData) - 1))
           row == inventorOfRow(rawData[Len(rawData)])
           at == {i \in DOMAIN before : before[i].inventor = row.inventor}
       IN IF ~Truthy(row.inventor) THEN before
          ELSE IF at # {}
          THEN [i \in DOMAIN before |->
                  IF i \in at THEN [before[i] EXCEPT !.count = @ + 1] ELSE before[i]]
          ELSE Append(before, [country |-> row.country, inventor |-> row.inventor,
                               count |-> 1])

processInventorData(rawData) ==
  SortDescBy(inventorMap(rawData), LAMBDA r : r.count)

ASSIGNEE_COUNT_FILE == "raw/Assignee_Count.csv"

ASSIGNEE_COUNTRY_FILE == "raw/Assignee_Country.csv"

INVENTOR_COUNT_FILE == "raw/Inventor_Count.csv"

INVENTOR_COUNTRY_FILE == "raw/Inventor_Country.csv"

ASSIGNEE_PROCESSED_FILE == "processed/Assignee_Country_Count_Updated.csv"

ASSIGNEE_PROCESSED_ALTERNATES == <<"processed/Assignee_Country_Count.csv">>

\* loadCsvDataSafe: no records when there is no file or the load throws
loadCsvDataSafe(filePath) ==
  IF filePath = NOT_FOUND THEN <<>>
  ELSE IF loadCsvData_entity(filePath).threw THEN <<>>
  ELSE loadCsvData_entity(filePath).records

\* the five findCsvFile calls
entityFiles ==
  [assigneeCountFile |-> findCsvFile_entity(ASSIGNEE_COUNT_FILE, <<>>),
   assigneeCountryFile |-> findCsvFile_entity(ASSIGNEE_COUNTRY_FILE, <<>>),
   inventorCountFile |-> findCsvFile_entity(INVENTOR_COUNT_FILE, <<>>),
   inventorCountryFile |-> findCsvFile_entity(INVENTOR_COUNTRY_FILE, <<>>),
   assigneeCountryProcessedFile |->
     findCsvFile_entity(ASSIGNEE_PROCESSED_FILE, ASSIGNEE_PROCESSED_ALTERNATES)]

\* Promise.all of the five loadCsvDataSafe calls
entityLoaded(fileInfo) == [name \in DOMAIN fileInfo |-> loadCsvDataSafe(fileInfo[name])]

\* getEntityData from the validation on
entityResult(fileInfo, loaded) ==
  LET hasAssigneeData ==
        \/ Len(loaded.assigneeCountryProcessedFile) > 0
        \/ Len(loaded.assigneeCountFile) > 0
        \/ Len(loaded.assigneeCountryFile) > 0
      hasInventorData ==
        Len(loaded.inventorCountFile) > 0 \/ Len(loaded.inventorCountryFile) > 0
      assigneeData ==
        IF Len(loaded.assigneeCountryProcessedFile) > 0
        THEN normalizeAssigneeData(loaded.assigneeCountryProcessedFile)
        ELSE IF Len(loaded.assigneeCountryFile) > 0
        THEN normalizeAssigneeData(loaded.assigneeCountryFile)
        ELSE <<>>
      inventorData ==
        IF Len(loaded.inventorCountryFile) > 0
        THEN processInventorData(loaded.inventorCountryFile)
        ELSE <<>>
  IN IF ~hasAssigneeData /\ ~hasInventorData
     THEN Failure("No entity data files found")
     ELSE [success |-> TRUE,
           data |-> [assigneeData |-> assigneeData, inventorData |-> inventorData],
           fileInfo |-> fileInfo]

getEntityData == entityResult(entityFiles, entityLoaded(entityFiles))

(***************************************************************************)
(* The environment: the files below data/ change between requests          *)
(***************************************************************************)
\* bounds of the model: the longest family and priority files written
MaxFamilyRows == 2

MaxPriorityRows == 1

\* a row of All_Family_Country_Map.csv
FamilyRow(code, total) == (FAMILY_COUNTRY :> code) @@ (TOTAL :> total)

\* a row of Priority_Country_Map.csv
PriorityRow(code, total) == (PRIORITY_COUNTRY :> code) @@ (TOTAL :> total)

\* the rows written to the family file: the two rows of the documented
\* scenario, a lower-case Nordic code, a code outside every table, a count
\* that is no number, and a row of a file whose count column is headed "total"
FamilyRowKinds == {
  FamilyRow(<<"N", "O">>, <<"1", "2">>),
  FamilyRow(<<"E", "P">>, <<"5">>),
  FamilyRow(<<"n", "o">>, <<"7">>),
  FamilyRow(<<"X", "X">>, <<"3">>),
  FamilyRow(<<"D", "K">>, <<"a", "b", "c">>),
  (FAMILY_COUNTRY :> <<"F", "I">>) @@ ("total" :> <<"6">>) }

\* the rows written to the priority file: a Nordic country, a lower-case
\* special region and a row with an empty code
PriorityRowKinds == {
  PriorityRow(<<"S", "E">>, <<"3">>),
  PriorityRow(<<"p", "c", "t">>, <<"2">>),
  PriorityRow(<<>>, <<"4">>) }

\* the file of the timeline route
TIMELINE_FILE == "raw/Timeline_Current_Owner_Count.csv"

\* bound of the model: the longest timeline file written
MaxTimelineRows == 3

\* the header of Timeline_Current_Owner_Count.csv: the owner, two years and a
\* year outside YEAR_RANGE
TimelineHeader == << <<"C", "u", "r", "r", "e", "n", "t", " ", "O", "w", "n", "e", "r">>, <<"2", "0", "1", "9">>, <<"2", "0", "2", "0">>, <<"1", "9", "9", "9">> >>

TimelineRow(owner, counts) == [keys |-> TimelineHeader, vals |-> <<owner>> \o counts]

\* an owner with a zero count, an owner named None, an owner named unknown in
\* quotes, counts that are negative or no number, an empty cell and a number
\* followed by text, a row without owner, and an owner with patents in the
\* later year only
TimelineRowKinds == {
  TimelineRow(<<"A", "c", "m", "e">>, <<<<"3">>, <<"0">>, <<"7">>>>),
  TimelineRow(<<"N", "o", "n", "e">>, <<<<"4">>, <<"4">>, <<"4">>>>),
  TimelineRow(<<"\"", "u", "n", "k", "n", "o", "w", "n", "\"">>, <<<<"2">>, <<"1">>, <<"0">>>>),
  TimelineRow(<<"G", "a", "m", "m", "a", " ", "\"", "G", "\"">>, <<<<"-", "2">>, <<"a", "b", "c">>, <<"1">>>>),
  TimelineRow(<<"D", "e", "l", "t", "a">>, <<<<>>, <<"1", "2", "a", "b", "c">>, <<"0">>>>),
  TimelineRow(<<>>, <<<<"1">>, <<"1">>, <<"1">>>>),
  TimelineRow(<<"B", "e", "t", "a">>, <<<<"0">>, <<"3">>, <<"0">>>>) }

\* bounds of the model: the rows of an owner file that differ from each
\* other come first, at most MaxVariedRows of them, and rows of one owner
\* fill the file up to MaxOwnerRows
MaxVariedRows == 2

MaxOwnerRows == 16

\* the header of Current-Owner_IPC-Full.csv: owner, total, six classifications
OwnerHeader == <<
  <<"C", "u", "r", "r", "e", "n", "t", " ", "O", "w", "n", "e", "r">>, <<"T", "o", "t", "a", "l">>,
  <<"G", "0", "6", "N", ":", " ", "C", "o", "m", "p", "u", "t", "i", "n", "g">>, <<"H", "0", "4", "L">>, <<"\"", "A", "6", "1", "K", "\"">>, <<"B", "6", "0", ":", " ", "V", "e", "h", "i", "c", "l", "e", "s">>, <<"C", "0", "7">>, <<"F", "1", "6">> >>

OwnerRow(owner, total, counts) ==
  [keys |-> OwnerHeader, vals |-> <<owner, total>> \o counts]

\* two owners in ascending order of total, an owner in quotes with a
\* thousands separator, a separator line, a repeated header line, a row
\* without owner and an owner without patents
VariedOwnerRows == {
  OwnerRow(<<"A", "c", "m", "e">>, <<"5">>, <<<<"3">>, <<"2">>, <<"0">>, <<"0">>, <<"0">>, <<"0">>>>),
  OwnerRow(<<"B", "e", "t", "a">>, <<"9">>, <<<<"0">>, <<"1">>, <<"4">>, <<"0">>, <<"2">>, <<"2">>>>),
  OwnerRow(<<"\"", "D", "e", "l", "t", "a", ",", " ", "I", "n", "c", "\"">>, <<"1", ",", "2", "3", "4">>, <<<<"1", ",", "0", "0", "0">>, <<"2", "0", "0">>, <<"3", "0">>, <<"4">>, <<>>, <<"x">>>>),
  OwnerRow(<<"-", "-", "-", "-", "-", "-">>, <<"-", "-", "-">>, <<<<"-", "-", "-">>, <<"-", "-", "-">>, <<"-", "-", "-">>, <<"-", "-", "-">>, <<"-", "-", "-">>, <<"-", "-", "-">>>>),
  OwnerRow(<<"C", "u", "r", "r", "e", "n", "t", " ", "O", "w", "n", "e", "r">>, <<"T", "o", "t", "a", "l">>, <<<<"a">>, <<"b">>, <<"c">>, <<"d">>, <<"e">>, <<"f">>>>),
  OwnerRow(<<>>, <<"4">>, <<<<"4">>, <<"0">>, <<"0">>, <<"0">>, <<"0">>, <<"0">>>>),
  OwnerRow(<<"G", "a", "m", "m", "a">>, <<"0">>, <<<<"0">>, <<"0">>, <<"0">>, <<"0">>, <<"0">>, <<"0">>>>) }

FillerOwnerRow == OwnerRow(<<"F", "i", "l", "l">>, <<"1">>, <<<<"1">>, <<"0">>, <<"0">>, <<"0">>, <<"0">>, <<"1">>>>)

\* a last row, beyond the rows returned, with most of its patents in B60
TailOwnerRow == OwnerRow(<<"T", "a", "i", "l">>, <<"5", "0">>, <<<<"0">>, <<"0">>, <<"0">>, <<"5", "0">>, <<"0">>, <<"0">>>>)

\* bound of the model: the longest classification file written
MaxClassRows == 1

FullRow(name, total) ==
  [keys |-> << <<"C", "l", "a", "s", "s", "i", "f", "i", "c", "a", "t", "i", "o", "n">>, <<"T", "o", "t", "a", "l">> >>, vals |-> <<name, total>>]

YearRow(year, counts) ==
  [keys |-> << <<"Y", "e", "a", "r">>, <<"G", "0", "6", "N", ":", " ", "C", "o", "m", "p", "u", "t", "i", "n", "g">>, <<"H", "0", "4", "L">> >>, vals |-> <<year>> \o counts]

\* the rows written to the six classification files
FullRowKinds == { FullRow(<<"G", "0", "6", "N", ":", " ", "C", "o", "m", "p", "u", "t", "i", "n", "g">>, <<"1", "2">>) }

ClassOwnerRowKinds ==
  { OwnerRow(<<"A", "c", "m", "e">>, <<"5">>, <<<<"3">>, <<"2">>, <<"0">>, <<"0">>, <<"0">>, <<"0">>>>) }

YearRowKinds == { YearRow(<<"2", "0", "1", "5">>, <<<<"3">>, <<"1">>>>) }

ClassFiles ==
  {IPC_FULL_FILE, CPC_FULL_FILE, IPC_OWNER_FILE, CPC_OWNER_FILE, CPC_YEAR_FILE,
   IPC_YEAR_FILE}

Range(s) == {s[i] : i \in DOMAIN s}

\* the alternate names; none of them is written in this model
ClassAlternates ==
  Range(IPC_FULL_ALTERNATES) \cup Range(CPC_FULL_ALTERNATES)
    \cup Range(IPC_OWNER_ALTERNATES) \cup Range(CPC_OWNER_ALTERNATES)
    \cup Range(CPC_YEAR_ALTERNATES) \cup Range(IPC_YEAR_ALTERNATES)

GeoFiles == {FAMILY_FILE, PRIORITY_FILE, TRENDS_FILE}

\* a row of Inventor_Country.csv
InventorRow(country, inventor) ==
  [keys |-> << <<"C", "o", "u", "n", "t", "r", "y">>, <<"I", "n", "v", "e", "n", "t", "o", "r">> >>,
   vals |-> <<country, inventor>>]

\* the row written to Inventor_Country.csv while requests are in flight
InFlightInventorRows == { InventorRow(<<"N", "O">>, <<"A", "n", "n">>) }

\* a row of Assignee_Country_Count_Updated.csv
AssigneeRow(country, assignee, count) ==
  [keys |-> <<<<"C", "o", "u", "n", "t", "r", "y">>, <<"A", "s", "s", "i", "g", "n", "e", "e">>, <<"C", "o", "u", "n", "t">>>>, vals |-> <<country, assignee, count>>]

\* bound of the model: the longest file of the entity route written
MaxEntityRows == 1

\* the rows written to the processed assignee file: an assignee with patents
\* and one without
ProcessedAssigneeRows == {
  AssigneeRow(<<"N", "O">>, <<"A", "c", "m", "e">>, <<"5">>),
  AssigneeRow(<<"F", "I">>, <<"D", "e", "l", "t", "a">>, <<"0">>) }

\* the row written to Assignee_Country.csv
RawAssigneeRows == { AssigneeRow(<<"D", "K">>, <<"B", "e", "t", "a">>, <<"9">>) }

\* the row written to Assignee_Count.csv
AssigneeCountRows == { [keys |-> <<<<"A", "s", "s", "i", "g", "n", "e", "e">>, <<"C", "o", "u", "n", "t">>>>, vals |-> <<<<"A", "c", "m", "e">>, <<"5">>>>] }

RowKindsOf(path) ==
  CASE path = FAMILY_FILE -> FamilyRowKinds
    [] path = PRIORITY_FILE -> PriorityRowKinds
    [] path = TIMELINE_FILE -> TimelineRowKinds
    [] path \in {IPC_FULL_FILE, CPC_FULL_FILE} -> FullRowKinds
    [] path \in {IPC_OWNER_FILE, CPC_OWNER_FILE} -> ClassOwnerRowKinds
    [] path \in {CPC_YEAR_FILE, IPC_YEAR_FILE} -> YearRowKinds
    [] path = INVENTOR_COUNTRY_FILE -> InFlightInventorRows
    [] path = ASSIGNEE_PROCESSED_FILE -> ProcessedAssigneeRows
    [] path = ASSIGNEE_COUNTRY_FILE -> RawAssigneeRows
    [] path = ASSIGNEE_COUNT_FILE -> AssigneeCountRows
    [] OTHER -> {}

MaxRowsOf(path) ==
  CASE path = FAMILY_FILE -> MaxFamilyRows
    [] path = PRIORITY_FILE -> MaxPriorityRows
    [] path = TIMELINE_FILE -> MaxTimelineRows
    [] path \in ClassFiles -> MaxClassRows
    [] path = INVENTOR_COUNTRY_FILE -> MaxClassRows
    [] path \in {ASSIGNEE_PROCESSED_FILE, ASSIGNEE_COUNTRY_FILE, ASSIGNEE_COUNT_FILE} -> MaxEntityRows
    [] OTHER -> 0

EntityFiles ==
  {ASSIGNEE_COUNT_FILE, ASSIGNEE_COUNTRY_FILE, INVENTOR_COUNT_FILE, INVENTOR_COUNTRY_FILE,
   ASSIGNEE_PROCESSED_FILE}

AllFiles ==
  GeoFiles \cup {FAMILY_FILE_ALT, PRIORITY_FILE_ALT, TIMELINE_FILE}
    \cup ClassFiles \cup ClassAlternates
    \cup EntityFiles \cup Range(ASSIGNEE_PROCESSED_ALTERNATES)

\* no request is being answered: the files change only between requests
Idle == resp = NoResponse

CreateFile(path) ==
  /\ Idle
  /\ files[path].status = "missing"
  /\ files' = [files EXCEPT ![path] = OkFile(<<>>)]

AppendRow(path) ==
  /\ Idle
  /\ files[path].status = "ok"
  /\ Len(files[path].rows) < MaxRowsOf(path)
  /\ \E row \in RowKindsOf(path) :
       files' = [files EXCEPT ![path].rows = Append(@, row)]

CorruptFile(path) ==
  /\ Idle
  /\ files[path].status = "ok"
  /\ files' = [files EXCEPT ![path] = UnreadableFile]

RemoveFile(path) ==
  /\ Idle
  /\ files[path].status # "missing"
  /\ files' = [files EXCEPT ![path] = MissingFile]

\* the response has been sent and the request is over
Deliver ==
  /\ resp # NoResponse
  /\ resp' = NoResponse
  /\ UNCHANGED <<files, ownerRecords, ownerResult, tlResult, input, output, req>>

(***************************************************************************)
(* GET /api/geographic                                                     *)
(***************************************************************************)
\* GET of part_004: 200 with the cache header on success, 500 otherwise
GET_geographic_p004 ==
  /\ Idle
  /\ resp' = LET result == getGeographicData_p004
             IN IF result.success
                THEN JsonResponse("geographic_p004", result, 200, CACHE_CONTROL)
                ELSE JsonResponse("geographic_p004", result, 500, NoHeaders)
  /\ UNCHANGED <<files, ownerRecords, ownerResult, tlResult, input, output, req>>

\* GET of part_005: the result is sent as it is, with the default status.
\* getGeographicData catches every error, so GET's own catch clause (the only
\* place that sets 500) is never entered.
GET_geographic_p005 ==
  /\ Idle
  /\ resp' = JsonResponse("geographic_p005", getGeographicData_p005, 200, NoHeaders)
  /\ UNCHANGED <<files, ownerRecords, ownerResult, tlResult, input, output, req>>

GeoEnv ==
  /\ \E path \in GeoFiles :
       CreateFile(path) \/ AppendRow(path) \/ CorruptFile(path) \/ RemoveFile(path)
  /\ UNCHANGED <<resp, ownerRecords, ownerResult, tlResult, input, output, req>>

\* bound of the model: the requests that can be in flight at once
MaxRequests == 2

Requests == 1..MaxRequests

\* a slot without a request
NoRequest == [endpoint |-> "none", pc |-> "idle", data |-> <<>>, response |-> NoResponse]

IdleInit ==
  /\ files = [path \in AllFiles |-> MissingFile]
  /\ resp = NoResponse
  /\ ownerRecords = <<>>
  /\ ownerResult = NotRun
  /\ tlResult = NotRun
  /\ input = <<>>
  /\ output = NotRun
  /\ req = [r \in Requests |-> NoRequest]

GeoNext == GeoEnv \/ GET_geographic_p004 \/ GET_geographic_p005 \/ Deliver

SpecGeo == IdleInit /\ [][GeoNext]_vars

(***************************************************************************)
(* processOwnerClassification at work: a request parses an owner file row  *)
(* by row, aggregates the rows once, and ends.                             *)
(***************************************************************************)
\* csv-parse delivers the next row of the owner file
ParseOwnerRow ==
  /\ ~ownerResult.done
  /\ \/ /\ Len(ownerRecords) < MaxVariedRows
        /\ \E row \in VariedOwnerRows : ownerRecords' = Append(ownerRecords, row)
     \/ /\ Len(ownerRecords) >= MaxVariedRows
        /\ Len(ownerRecords) < MaxOwnerRows
        /\ ownerRecords' = Append(ownerRecords, FillerOwnerRow)
     \/ /\ Len(ownerRecords) >= MaxVariedRows
        /\ Len(ownerRecords) = MaxOwnerRows - 1
        /\ ownerRecords' = Append(ownerRecords, TailOwnerRow)
  /\ UNCHANGED <<files, resp, ownerResult, tlResult, input, output, req>>

\* data.ipcByOwner = processOwnerClassification(records)
ProcessOwner ==
  /\ ~ownerResult.done
  /\ ownerResult' =
       Done(processOwnerClassification(ownerRecords, TOP_OWNERS, TOP_CLASSIFICATIONS))
  /\ UNCHANGED <<files, resp, ownerRecords, tlResult, input, output, req>>

\* the request is over; the next one parses the file anew
EndOwnerRequest ==
  /\ ownerResult.done
  /\ ownerRecords' = <<>>
  /\ ownerResult' = NotRun
  /\ UNCHANGED <<files, resp, tlResult, input, output, req>>

OwnerNext == ParseOwnerRow \/ ProcessOwner \/ EndOwnerRequest

SpecOwner == IdleInit /\ [][OwnerNext]_vars

(***************************************************************************)
(* convertToLongFormat at work: the timeline file changes between          *)
(* requests; a request that loads rows with year columns converts them.    *)
(***************************************************************************)
\* loadCsvData of the timeline route: throws when the file is missing,
\* unreadable or malformed
loadCsvData_timeline(path) ==
  IF ~existsSync(path) THEN Threw("Required file not found")
  ELSE readStripAndParse(path)

TimelineEnv ==
  /\ ~tlResult.done
  /\ CreateFile(TIMELINE_FILE) \/ AppendRow(TIMELINE_FILE)
       \/ CorruptFile(TIMELINE_FILE) \/ RemoveFile(TIMELINE_FILE)
  /\ UNCHANGED <<resp, ownerRecords, ownerResult, tlResult, input, output, req>>

\* getTimelineData up to its call of convertToLongFormat: the file loads, has
\* records, and its first row has a year column and an owner column
ConvertTimeline ==
  /\ Idle
  /\ ~tlResult.done
  /\ LET loaded == loadCsvData_timeline(TIMELINE_FILE)
     IN /\ ~loaded.threw
        /\ Len(loaded.records) > 0
        /\ LET structure == extractYearsAndOwnerKey(loaded.records[1])
           IN /\ ~structure.threw
              /\ tlResult' = Done(convertToLongFormat(loaded.records, structure.years,
                                                      structure.ownerKey))
  /\ UNCHANGED <<files, resp, ownerRecords, ownerResult, input, output, req>>

\* the request is over
EndTimelineRequest ==
  /\ tlResult.done
  /\ tlResult' = NotRun
  /\ UNCHANGED <<files, resp, ownerRecords, ownerResult, input, output, req>>

TimelineNext == TimelineEnv \/ ConvertTimeline \/ EndTimelineRequest

SpecTimeline == IdleInit /\ [][TimelineNext]_vars

(***************************************************************************)
(* GET /api/classification                                                 *)
(***************************************************************************)
ClassificationEnv ==
  /\ \E path \in ClassFiles :
       CreateFile(path) \/ AppendRow(path) \/ CorruptFile(path) \/ RemoveFile(path)
  /\ UNCHANGED <<resp, ownerRecords, ownerResult, tlResult, input, output, req>>

\* 200 with the cache header on success, 500 otherwise
GET_classification ==
  /\ Idle
  /\ resp' = LET result == getClassificationData
             IN IF result.success
                THEN JsonResponse("classification", result, 200, CACHE_CONTROL)
                ELSE JsonResponse("classification", result, 500, NoHeaders)
  /\ UNCHANGED <<files, ownerRecords, ownerResult, tlResult, input, output, req>>

ClassificationNext == ClassificationEnv \/ GET_classification \/ Deliver

SpecClassification == IdleInit /\ [][ClassificationNext]_vars

(***************************************************************************)
(* Properties of the geographic route                                      *)
(***************************************************************************)
\* the rows a handler gets from a file: none unless the file loads
InputRows(path) == IF files[path].status = "ok" THEN files[path].rows ELSE <<>>

Totals(s) == MapSeq(s, TotalOf)

\* the trimmed country code of a row, undefined or empty when it has none
CodeOf(row, key) == optTrim(Get(row, key))

HasCode(row, key) == Truthy(CodeOf(row, key))

\* the count of a row as part_004 reads it: its Total cell, 0 when not a number
CountRead_p004(row) ==
  LET n == parseInt(OrElse(Get(row, "Total"), <<"0">>)) IN IF n.nan THEN 0 ELSE n.val

\* the count of a row as part_005 reads it: its Total cell, or else its total cell
CountRead_p005(row) ==
  parseInt(OrElse(OrElse(Get(row, "Total"), Get(row, "total")), <<"0">>))

\* a code found in the static table of the implementation (PCT is known to
\* part_004 as a special region)
Recognized_p004(code) ==
  \/ \E e \in COUNTRY_DATA : e.iso2 = toUpperCase(code)
  \/ toUpperCase(code) \in SPECIAL_REGIONS

Recognized_p005(code) == \E e \in countryNames : e.key = toUpperCase(code)

Responded(endpoint) == resp.endpoint = endpoint

Answered(endpoint) == Responded(endpoint) /\ resp.body.success

\* the sum of the totals of all records part_004 made of one file
OutputSum_p004(dataset, specialRegions) ==
  SumSeq(Totals(dataset.map)) + SumSeq(Totals(specialRegions))

\* C4 as stated: the totals of all output records (country records plus
\* special-region records) sum to the Total column summed over the input rows
\* that carry a recognized country code.
C4_SumOverRecognizedCodes ==
  /\ Answered("geographic_p004") =>
       OutputSum_p004(resp.body.data.familyData, resp.body.data.familySpecialRegions)
         = SumSeq(MapSeq(SelectSeq(InputRows(FAMILY_FILE),
                                   LAMBDA row : /\ HasCode(row, FAMILY_COUNTRY)
                                                /\ Recognized_p004(CodeOf(row, FAMILY_COUNTRY))),
                         CountRead_p004))
  /\ Answered("geographic_p005") =>
       SumSeq(Totals(resp.body.data.familyData))
         = SumSeq(MapSeq(SelectSeq(InputRows(FAMILY_FILE),
                                   LAMBDA row : /\ HasCode(row, FAMILY_COUNTRY)
                                                /\ Recognized_p005(CodeOf(row, FAMILY_COUNTRY))
                                                /\ ~CountRead_p005(row).nan),
                         LAMBDA row : CountRead_p005(row).val))

\* the rows of a file that part_004 / part_005 turn into records
Coded_p004(path, key) == SelectSeq(InputRows(path), LAMBDA row : HasCode(row, key))

Coded_p005(path, key) ==
  SelectSeq(InputRows(path), LAMBDA row : HasCode(row, key) /\ ~CountRead_p005(row).nan)

\* two sequences hold the same elements the same number of times
SameBag(s, t) ==
  /\ Len(s) = Len(t)
  /\ \A i \in DOMAIN s :
       Cardinality({j \in DOMAIN s : s[j] = s[i]})
         = Cardinality({j \in DOMAIN t : t[j] = s[i]})

TotalPreserving_p004(path, key, dataset, specialRegions) ==
  LET coded == Coded_p004(path, key)
      countries == SelectSeq(coded, LAMBDA row : ~(toUpperCase(CodeOf(row, key)) \in SPECIAL_REGIONS))
      regions == SelectSeq(coded, LAMBDA row : toUpperCase(CodeOf(row, key)) \in SPECIAL_REGIONS)
  IN /\ OutputSum_p004(dataset, specialRegions) = SumSeq(MapSeq(coded, CountRead_p004))
     /\ Totals(dataset.map) = MapSeq(countries, CountRead_p004)
     /\ SameBag(Totals(dataset.list), MapSeq(countries, CountRead_p004))
     /\ SameBag(Totals(specialRegions), MapSeq(regions, CountRead_p004))

TotalPreserving_p005(path, key, countries) ==
  LET coded == Coded_p005(path, key)
  IN /\ SumSeq(Totals(countries)) = SumSeq(MapSeq(coded, LAMBDA row : CountRead_p005(row).val))
     /\ Totals(countries) = MapSeq(coded, LAMBDA row : CountRead_p005(row).val)

\* C4, amended: the totals of all output records sum to the counts of the
\* input rows with a non-empty country code, whether or not the code is in
\* the static table, and each output record keeps the count of its input row
\* (part_004 reads a count that is no number as 0, part_005 drops the row).
C4_TotalPreserving ==
  /\ Answered("geographic_p004") =>
       /\ TotalPreserving_p004(FAMILY_FILE, FAMILY_COUNTRY, resp.body.data.familyData,
                               resp.body.data.familySpecialRegions)
       /\ TotalPreserving_p004(PRIORITY_FILE, PRIORITY_COUNTRY, resp.body.data.priorityData,
                               resp.body.data.prioritySpecialRegions)
  /\ Answered("geographic_p005") =>
       /\ TotalPreserving_p005(FAMILY_FILE, FAMILY_COUNTRY, resp.body.data.familyData)
       /\ TotalPreserving_p005(PRIORITY_FILE, PRIORITY_COUNTRY, resp.body.data.priorityData)

\* C4's case: part_004 answered for a family file that holds a special
\* region and a code outside the table, both counted in the output
C4_Witness ==
  /\ Answered("geographic_p004")
  /\ Len(resp.body.data.familySpecialRegions) > 0
  /\ \E i \in DOMAIN resp.body.data.familyData.map :
       /\ resp.body.data.familyData.map[i].code = <<"X", "X">>
       /\ resp.body.data.familyData.map[i].total > 0

IsSpecialCode(code) == toUpperCase(code) \in SPECIAL_REGIONS

CountWhere(s, P(_)) == Len(SelectSeq(s, P))

\* C7 for part_004: special regions only among the special-region records,
\* and one country record with name, ISO-3 code and total per row whose code
\* is in COUNTRY_DATA.
SpecialRegionsSplit_p004(path, key, dataset, specialRegions) ==
  LET coded == Coded_p004(path, key)
  IN /\ \A i \in DOMAIN dataset.map :
          \A e \in COUNTRY_DATA :
            IsSpecialCode(e.iso2) => dataset.map[i].country # e.name
     /\ \A i \in DOMAIN dataset.list :
          \A e \in COUNTRY_DATA :
            IsSpecialCode(e.iso2) => dataset.list[i].country # e.name
     /\ Len(specialRegions)
          = CountWhere(coded, LAMBDA row : IsSpecialCode(CodeOf(row, key)))
     /\ \A e \in COUNTRY_DATA :
          ~IsSpecialCode(e.iso2) =>
            \A n \in {CountRead_p004(coded[i]) : i \in DOMAIN coded} :
              CountWhere(dataset.map,
                         LAMBDA m : m = [country |-> e.name, code |-> e.iso3, total |-> n])
                = CountWhere(coded,
                             LAMBDA row : /\ toUpperCase(CodeOf(row, key)) = e.iso2
                                          /\ CountRead_p004(row) = n)

\* C7 for part_005: no record of the country list carries a special-region
\* code, and one country record with name, ISO-3 code and total per row whose
\* code is in the ISO table.
SpecialRegionsSplit_p005(path, key, countries) ==
  LET coded == Coded_p005(path, key)
  IN /\ \A i \in DOMAIN countries : ~IsSpecialCode(countries[i].countryCode)
     /\ \A e \in ISO_2_TO_ISO_3 :
          \A n \in {CountRead_p005(coded[i]).val : i \in DOMAIN coded} :
            CountWhere(countries,
                       LAMBDA c : /\ toUpperCase(c.countryCode) = e.key
                                  /\ c.countryName = getCountryInfo(e.key).name
                                  /\ c.iso3 = e.iso3
                                  /\ c.total = n)
              = CountWhere(coded,
                           LAMBDA row : /\ toUpperCase(CodeOf(row, key)) = e.key
                                        /\ CountRead_p005(row).val = n)

\* C7 holds of part_004: EP, WO and PCT rows, in any letter case, are emitted
\* only as special-region records, and NO with Total 12 is one country record
\* (Norway, NOR, 12).
C7_SpecialRegionsSplit_p004 ==
  Answered("geographic_p004") =>
    /\ SpecialRegionsSplit_p004(FAMILY_FILE, FAMILY_COUNTRY, resp.body.data.familyData,
                                resp.body.data.familySpecialRegions)
    /\ SpecialRegionsSplit_p004(PRIORITY_FILE, PRIORITY_COUNTRY, resp.body.data.priorityData,
                                resp.body.data.prioritySpecialRegions)

\* C7 as stated, of both geographic aggregators: a row whose code is a special
\* region (EP, WO, PCT, in any letter case) is never among the country records,
\* and a row with a recognized country code is exactly one country record with
\* its display name, ISO-3 code and total.
C7_SpecialRegionsSplit ==
  /\ C7_SpecialRegionsSplit_p004
  /\ Answered("geographic_p005") =>
       /\ SpecialRegionsSplit_p005(FAMILY_FILE, FAMILY_COUNTRY, resp.body.data.familyData)
       /\ SpecialRegionsSplit_p005(PRIORITY_FILE, PRIORITY_COUNTRY, resp.body.data.priorityData)

\* the input rows of a Nordic country that carry a count
NordicRows(path, key, code) ==
  SelectSeq(Coded_p005(path, key), LAMBDA row : toUpperCase(CodeOf(row, key)) = code)

\* C8 for one list: per Nordic country, the input's own records with their
\* totals when the country occurs in the input, one zero padding otherwise
NordicSubset(path, key, nordicData) ==
  \A k \in DOMAIN NORDIC_COUNTRY_CODES :
    LET code == NORDIC_COUNTRY_CODES[k]
        own == NordicRows(path, key, code)
        listed == SelectSeq(nordicData, LAMBDA c : toUpperCase(c.countryCode) = code)
    IN IF own = <<>>
       THEN Len(listed) = 1 /\ listed[1].total = 0
       ELSE Totals(listed) = MapSeq(own, LAMBDA row : CountRead_p005(row).val)

\* C8 as stated: on every successful geographic result the Nordic subset,
\* family and priority alike, holds for each of DK, FI, IS, NO, SE the input's
\* own record with its total when the country occurs in the input, and a
\* zero-total padding record exactly when it does not.
C8_NordicSubset ==
  Answered("geographic_p005") =>
    /\ NordicSubset(FAMILY_FILE, FAMILY_COUNTRY, resp.body.data.nordicFamilyData)
    /\ NordicSubset(PRIORITY_FILE, PRIORITY_COUNTRY, resp.body.data.nordicPriorityData)

\* C8 restricted to inputs whose Nordic codes are written in upper case
C8_NordicSubset_UpperCase ==
  (/\ Answered("geographic_p005")
   /\ \A i \in DOMAIN InputRows(FAMILY_FILE) :
        LET code == CodeOf(InputRows(FAMILY_FILE)[i], FAMILY_COUNTRY)
        IN Truthy(code) => code = toUpperCase(code))
  => C8_NordicSubset

\* the expected inputs of the geographic domain
HasData(path) == files[path].status = "ok" /\ files[path].rows # <<>>

\* C5 as stated, of the geographic handlers: a hard failure (HTTP 500,
\* success:false) only when every expected input CSV is missing or empty, and
\* success whenever one expected input is present with data.
C5_HardFailureOnlyWithoutInput ==
  resp.endpoint \in {"geographic_p004", "geographic_p005"} =>
    /\ (resp.status = 500 /\ ~resp.body.success) =>
         ~HasData(FAMILY_FILE) /\ ~HasData(PRIORITY_FILE)
    /\ (HasData(FAMILY_FILE) \/ HasData(PRIORITY_FILE)) => resp.body.success

\* C5 holds of part_005, which degrades a missing file to an empty list
C5_HardFailureOnlyWithoutInput_p005 ==
  resp.endpoint = "geographic_p005" => C5_HardFailureOnlyWithoutInput

\* C10 as stated: every response is {success:true, data} with status 200 or
\* {success:false, error} with status 500.
C10_ResponseShape ==
  resp # NoResponse =>
    \/ /\ resp.body.success
       /\ resp.status = 200
       /\ "data" \in DOMAIN resp.body
    \/ /\ ~resp.body.success
       /\ resp.status = 500
       /\ "error" \in DOMAIN resp.body

(***************************************************************************)
(* Properties of processOwnerClassification                                *)
(***************************************************************************)
\* the classification columns of an output record
ClassColumns(item) ==
  {item.keys[i] : i \in DOMAIN item.keys} \ {CURRENT_OWNER_KEY, TOTAL_KEY}

TotalOfOwner(item) == GetProp(item, TOTAL_KEY).num

\* C1: with the default limits processOwnerClassification returns at most 15
\* owner rows, and every returned row has at most 5 classification columns
\* besides currentOwner and total.
C1_OwnerLimits ==
  ownerResult.done =>
    /\ Len(ownerResult.rows) <= 15
    /\ \A i \in DOMAIN ownerResult.rows :
         Cardinality(ClassColumns(ownerResult.rows[i])) <= 5

\* more than 15 valid rows and 6 classification columns went in, 15 rows
\* with 5 classification columns came out
C1_Witness ==
  /\ ownerResult.done
  /\ Len(validOwnerRecords(ownerRecords)) > 15
  /\ Len(ObjectKeys(ownerRecords[1])) - 2 > 5
  /\ Len(ownerResult.rows) = 15
  /\ \E i \in DOMAIN ownerResult.rows :
       Cardinality(ClassColumns(ownerResult.rows[i])) = 5

\* the valid input rows as candidates: owner and total as the output has them
OwnerCandidates(records) ==
  LET valid == validOwnerRecords(records)
      keys == ObjectKeys(valid[1])
      cand == [i \in 1..Len(valid) |->
                 [owner |-> cleanOwnerName(GetProp(valid[i], At(keys, 0))),
                  total |-> parseNumber(GetProp(valid[i], At(keys, 1)))]]
  IN IF Len(valid) = 0 THEN <<>>
     ELSE SelectSeq(cand, LAMBDA c : c.owner # <<>> /\ c.total > 0)

\* C2: the returned owner rows are the owners with the 15 largest totals among
\* all valid input rows, in descending order of total, whatever the order of
\* the rows in the file.
C2_TopOwnersByTotal ==
  ownerResult.done =>
    LET rows == ownerResult.rows
        cand == OwnerCandidates(ownerRecords)
    IN /\ \A i, j \in DOMAIN rows :
            i < j => TotalOfOwner(rows[i]) >= TotalOfOwner(rows[j])
       /\ Len(rows) = (IF Len(cand) < 15 THEN Len(cand) ELSE 15)
       /\ \A i \in DOMAIN rows :
            Cardinality({c \in DOMAIN cand : cand[c].total > TotalOfOwner(rows[i])}) < 15

\* what the code does hold to: the returned rows are the first 15 valid rows
\* of the file, in file order, less those without owner or without patents
C2_FirstOwnersInFileOrder ==
  ownerResult.done =>
    LET valid == validOwnerRecords(ownerRecords)
        keys == ObjectKeys(valid[1])
        first == slice0(valid, 15)
        kept == SelectSeq(first, LAMBDA row :
                  /\ cleanOwnerName(GetProp(row, At(keys, 0))) # <<>>
                  /\ parseNumber(GetProp(row, At(keys, 1))) > 0)
    IN /\ Len(ownerResult.rows) = (IF Len(valid) = 0 THEN 0 ELSE Len(kept))
       /\ \A i \in DOMAIN ownerResult.rows :
            /\ GetProp(ownerResult.rows[i], CURRENT_OWNER_KEY).str =
                 cleanOwnerName(GetProp(kept[i], At(keys, 0)))
            /\ TotalOfOwner(ownerResult.rows[i]) =
                 parseNumber(GetProp(kept[i], At(keys, 1)))

(***************************************************************************)
(* Properties of convertToLongFormat                                       *)
(***************************************************************************)
TimelineRecords == InputRows(TIMELINE_FILE)

\* the owner of a row after removing double quotes and trimming
StatedOwner(row, ownerKey) ==
  LET cell == GetProp(row, ownerKey)
  IN IF cell = undefined THEN <<>> ELSE trim(RemoveChars(cell, {"\""}))

OwnerIsDropped(row, ownerKey) ==
  \/ StatedOwner(row, ownerKey) = <<>>
  \/ toLowerCase(StatedOwner(row, ownerKey)) \in {<<"n", "o", "n", "e">>, <<"n", "u", "l", "l">>, <<"u", "n", "k", "n", "o", "w", "n">>}

\* the count of a (row, year column) pair: the cell read as an integer, an
\* empty cell as 0
StatedCount(row, yearStr) == parseInt(OrElse(GetProp(row, yearStr), <<"0">>))

CountIsDropped(row, yearStr) ==
  StatedCount(row, yearStr).nan \/ StatedCount(row, yearStr).val <= 0

\* the (row, year column) pairs that are to give a point
PointPairs(records, years, ownerKey) ==
  {p \in (DOMAIN records) \X (DOMAIN years) :
     /\ ~OwnerIsDropped(records[p[1]], ownerKey)
     /\ ~CountIsDropped(records[p[1]], years[p[2]])}

PointOfPair(p, records, years, ownerKey) ==
  [owner |-> StatedOwner(records[p[1]], ownerKey),
   year |-> parseInt(years[p[2]]).val,
   count |-> StatedCount(records[p[1]], years[p[2]]).val]

\* C3: convertToLongFormat emits no point for a row whose owner, after
\* removing double quotes and trimming, is empty or none, null or unknown in
\* any case, and none for a (row, year column) pair whose count is <= 0 or no
\* number; every other pair gives exactly one point with that owner, year and
\* count.
C3_LongFormatPoints ==
  tlResult.done =>
    LET out == tlResult.rows
        records == TimelineRecords
        structure == extractYearsAndOwnerKey(records[1])
        years == structure.years
        ownerKey == structure.ownerKey
        pairs == PointPairs(records, years, ownerKey)
        point == [p \in pairs |-> PointOfPair(p, records, years, ownerKey)]
    IN /\ Len(out) = Cardinality(pairs)
       /\ \A p \in pairs :
            Cardinality({i \in DOMAIN out : out[i] = point[p]}) =
              Cardinality({q \in pairs : point[q] = point[p]})

\* a conversion that dropped a row for its owner, dropped a pair for its
\* count, and emitted a point
C3_Witness ==
  /\ tlResult.done
  /\ LET records == TimelineRecords
         structure == extractYearsAndOwnerKey(records[1])
     IN /\ \E r \in DOMAIN records :
             /\ OwnerIsDropped(records[r], structure.ownerKey)
             /\ StatedOwner(records[r], structure.ownerKey) # <<>>
        /\ \E r \in DOMAIN records : \E y \in DOMAIN structure.years :
             /\ ~OwnerIsDropped(records[r], structure.ownerKey)
             /\ CountIsDropped(records[r], structure.years[y])
  /\ Len(tlResult.rows) > 0

(***************************************************************************)
(* Properties of the classification route                                  *)
(***************************************************************************)
\* the file of the section is missing under every name, or does not load
SectionFailed(section) ==
  \/ \A path \in {FileOfSection(section)} \cup Range(AlternatesOfSection(section)) :
       files[path].status = "missing"
  \/ files[findCsvFile(FileOfSection(section), AlternatesOfSection(section))].status
       = "unreadable"

\* what a section is when its own file loads, whatever the other files do
SectionAlone(section) ==
  processSection(section,
    InputRows(findCsvFile(FileOfSection(section), AlternatesOfSection(section))))

SectionExpected(section) ==
  IF SectionFailed(section) THEN <<>> ELSE SectionAlone(section)

\* the response carries the six sections: a failed one empty, the others as
\* their own files make them
SectionsDegrade ==
  /\ resp.body.success
  /\ resp.status = 200
  /\ \A section \in ClassSections : resp.body.data[section] = SectionExpected(section)

\* C6 as stated: when one of the six files is missing or does not load, its
\* section is the empty list, the other five are what their files make them,
\* and the request is not aborted.
C6_OneFailedSection ==
  (Responded("classification")
     /\ Cardinality({section \in ClassSections : SectionFailed(section)}) = 1)
    => SectionsDegrade

\* C6: a section whose file is missing or does not load is the empty list and
\* the other sections are what their own files make them, whenever at least
\* one section has a record; when all six sections come out empty the request
\* fails as a whole with status 500 and carries no section.
C6_SectionsDegrade ==
  Responded("classification") =>
    IF \A section \in ClassSections : SectionExpected(section) = <<>>
    THEN ~resp.body.success /\ resp.status = 500
    ELSE SectionsDegrade

\* one file does not load, another section has records, and the response
\* carries the failed section empty next to the other
C6_Witness ==
  /\ Responded("classification")
  /\ resp.body.success
  /\ \E section \in ClassSections :
       /\ files[FileOfSection(section)].status = "unreadable"
       /\ resp.body.data[section] = <<>>
  /\ \E section \in ClassSections : Len(resp.body.data[section]) > 0
  /\ \E section \in ClassSections : files[FileOfSection(section)].status = "missing"

(***************************************************************************)
(* Properties of the response headers                                      *)
(***************************************************************************)
\* C11 as stated: every successful response carries a Cache-Control header
\* that is public, with an s-maxage of at least two hours and a
\* stale-while-revalidate of 86400 seconds; a failure response carries no
\* caching directive.
C11_CacheControl ==
  resp # NoResponse =>
    IF resp.body.success
    THEN /\ resp.headers.public
         /\ resp.headers.sMaxage >= 2 * 3600
         /\ resp.headers.staleWhileRevalidate = 86400
    ELSE resp.headers = NoHeaders

\* what the handlers that set the header hold to: one hour of freshness on
\* success, no directive on failure
C11_CacheControl_OneHour ==
  (resp # NoResponse /\ resp.endpoint # "geographic_p005") =>
    IF resp.body.success
    THEN /\ resp.headers.public
         /\ resp.headers.sMaxage = 3600
         /\ resp.headers.staleWhileRevalidate = 86400
    ELSE resp.headers = NoHeaders

(***************************************************************************)
(* findCsvFile at work: files appear and disappear under the canonical     *)
(* name and the alternate names of one input, and a request looks it up.   *)
(***************************************************************************)
\* the names looked up: Current-Owner_IPC-Full.csv and its three alternates
LookupNames == <<IPC_OWNER_FILE>> \o IPC_OWNER_ALTERNATES

LookupEnv ==
  /\ ~output.done
  /\ \E path \in Range(LookupNames) :
       CreateFile(path) \/ CorruptFile(path) \/ RemoveFile(path)
  /\ UNCHANGED <<resp, ownerRecords, ownerResult, tlResult, input, output, req>>

\* the three implementations, called with the same names
Lookup ==
  /\ Idle
  /\ ~output.done
  /\ input' = LookupNames
  /\ output' = Done([classification |-> findCsvFile(Head(LookupNames), Tail(LookupNames)),
                     entity |-> findCsvFile_entity(Head(LookupNames), Tail(LookupNames)),
                     geographic |-> findCsvFile_p005(Head(LookupNames), Tail(LookupNames))])
  /\ UNCHANGED <<files, resp, ownerRecords, ownerResult, tlResult, req>>

\* the caller is done with the result
EndCall ==
  /\ output.done
  /\ input' = <<>>
  /\ output' = NotRun
  /\ UNCHANGED <<files, resp, ownerRecords, ownerResult, tlResult, req>>

LookupNext == LookupEnv \/ Lookup \/ EndCall

SpecLookup == IdleInit /\ [][LookupNext]_vars

(***************************************************************************)
(* Properties of findCsvFile                                               *)
(***************************************************************************)
\* the positions, in canonical-then-alternates order, of the names that exist
ExistingNames(names) == {i \in DOMAIN names : files[names[i]].status # "missing"}

\* the result the description asks for
StatedLookup(names) ==
  IF ExistingNames(names) = {} THEN NOT_FOUND
  ELSE names[CHOOSE i \in ExistingNames(names) : \A j \in ExistingNames(names) : i <= j]

\* C12: findCsvFile returns the canonical name when that file exists,
\* otherwise the first alternate in list order that exists, and the not-found
\* value exactly when none of the names exists.
C12_FirstExistingName ==
  output.done =>
    /\ output.rows.classification = StatedLookup(input)
    /\ output.rows.entity = StatedLookup(input)
    /\ output.rows.geographic = StatedLookup(input)
    /\ (output.rows.classification = NOT_FOUND) <=> (ExistingNames(input) = {})

\* the canonical name and the first alternate are missing, the second and
\* the third alternate exist, and the second is returned
C12_Witness ==
  /\ output.done
  /\ ExistingNames(input) = {3, 4}
  /\ output.rows.classification = input[3]
  /\ output.rows.entity = input[3]

(***************************************************************************)
(* The CSV loaders at work: a file is written, with or without a           *)
(* byte-order mark in front, and a request loads it.                       *)
(***************************************************************************)
\* the files loaded: one of the geographic route, one of the classification
\* route
LoadedFiles == {FAMILY_FILE, IPC_FULL_FILE}

\* the file is saved again as UTF-8 with a byte-order mark
SaveWithBom(path) ==
  /\ Idle
  /\ files[path].status = "ok"
  /\ ~files[path].bom
  /\ files' = [files EXCEPT ![path].bom = TRUE]

LoadEnv ==
  /\ ~output.done
  /\ \E path \in LoadedFiles :
       CreateFile(path) \/ AppendRow(path) \/ SaveWithBom(path) \/ CorruptFile(path)
  /\ UNCHANGED <<resp, ownerRecords, ownerResult, tlResult, input, output, req>>

\* every loader, called with the same path
LoadCsv ==
  /\ Idle
  /\ ~output.done
  /\ \E path \in LoadedFiles :
       /\ existsSync(path)
       /\ input' = path
       /\ output' = Done([entity |-> loadCsvData_entity(path),
                          classification |-> loadCsvData(path),
                          timeline |-> loadCsvData_timeline(path),
                          geographic_p004 |-> loadCsvData_p004(path),
                          geographic_p005 |-> loadCsvData_p005(path)])
  /\ UNCHANGED <<files, resp, ownerRecords, ownerResult, tlResult, req>>

LoadNext == LoadEnv \/ LoadCsv \/ EndCall

SpecLoad == IdleInit /\ [][LoadNext]_vars

(***************************************************************************)
(* Properties of the CSV loaders                                           *)
(***************************************************************************)
\* the records of the file as it is without the byte-order mark
RecordsWithoutBom(path) == files[path].rows

BomStripped(loaded) ==
  /\ ~loaded.threw
  /\ loaded.records = RecordsWithoutBom(input)

\* C13 as stated: every loader strips one leading byte-order mark, so a file
\* with the mark yields the records, first header key included, of the same
\* file without it.
C13_BomStripped ==
  (output.done /\ files[input].status = "ok") =>
    /\ BomStripped(output.rows.entity)
    /\ BomStripped(output.rows.classification)
    /\ BomStripped(output.rows.timeline)
    /\ BomStripped(output.rows.geographic_p004)
    /\ BomStripped(output.rows.geographic_p005)

\* the loaders that call removeBOM do hold to it
C13_BomStripped_removeBOM ==
  (output.done /\ files[input].status = "ok") =>
    /\ BomStripped(output.rows.entity)
    /\ BomStripped(output.rows.classification)
    /\ BomStripped(output.rows.timeline)
    /\ BomStripped(output.rows.geographic_p004)

\* part_005 reads the country of no record of a family file with the mark
C13_MarkedFileLosesCountries ==
  (output.done /\ input = FAMILY_FILE /\ files[input].status = "ok" /\ files[input].bom) =>
    processCountryData_p005(output.rows.geographic_p005.records, FAMILY_COUNTRY) = <<>>

(***************************************************************************)
(* Requests in flight                                                      *)
(*                                                                         *)
(* A handler runs to its next await without interruption; between awaits   *)
(* the handlers of other requests run. getClassificationData awaits after  *)
(* each of its six loads. getEntityData reads its five files in the        *)
(* synchronous part of the loadCsvDataSafe calls and awaits them together. *)
(* No handler keeps anything outside its own locals.                       *)
(***************************************************************************)
\* the order in which getClassificationData fills its sections
SectionOrder == <<"ipcFull", "cpcFull", "ipcByOwner", "cpcByOwner", "cpcByYear", "ipcByYear">>

AfterSection(section) ==
  LET i == CHOOSE k \in DOMAIN SectionOrder : SectionOrder[k] = section
  IN IF i = Len(SectionOrder) THEN "validate" ELSE SectionOrder[i + 1]

\* GET of the handlers that set the cache header: 200 on success, else 500
respond(endpoint, result) ==
  IF result.success THEN JsonResponse(endpoint, result, 200, CACHE_CONTROL)
  ELSE JsonResponse(endpoint, result, 500, NoHeaders)

\* one object for all requests in place of the local `data`
localData_shared(r) ==
  IF req[1].endpoint = req[r].endpoint THEN req[1].data ELSE req[r].data

\* const data = {...}: the object the handler of request r fills
localData(r) == req[r].data

\* the files written while requests are served: one of each route, with the
\* rows of InFlightRowKinds
InFlightFiles == {IPC_FULL_FILE, INVENTOR_COUNTRY_FILE}

NoneInFlight == \A r \in Requests : req[r] = NoRequest

InFlightEnv ==
  /\ NoneInFlight
  /\ \E path \in InFlightFiles : CreateFile(path) \/ AppendRow(path) \/ RemoveFile(path)
  /\ UNCHANGED <<resp, ownerRecords, ownerResult, tlResult, input, output, req>>

\* GET /api/classification arrives: getClassificationData declares data
StartClassification(r) ==
  /\ req[r] = NoRequest
  /\ req' = [req EXCEPT ![r] = [endpoint |-> "classification", pc |-> SectionOrder[1],
                                data |-> [section \in ClassSections |-> <<>>],
                                response |-> NoResponse]]

\* one section: find, load, process, catch; then the next await
FillSection(r) ==
  /\ req[r].endpoint = "classification"
  /\ req[r].pc \in ClassSections
  /\ req' = [req EXCEPT
       ![r].data = [localData(r) EXCEPT ![req[r].pc] =
                      IF sectionData(req[r].pc) = <<>> THEN @ ELSE sectionData(req[r].pc)],
       ![r].pc = AfterSection(req[r].pc)]

\* the validation, the return and GET's response
RespondClassification(r) ==
  /\ req[r].endpoint = "classification"
  /\ req[r].pc = "validate"
  /\ req' = [req EXCEPT
       ![r].response =
          respond("classification",
                  IF ~hasData(localData(r))
                  THEN Failure("No classification data files found or all files are empty")
                  ELSE Success(localData(r))),
       ![r].pc = "done"]

\* GET /api/entity arrives: the files are found and read
StartEntity(r) ==
  /\ req[r] = NoRequest
  /\ req' = [req EXCEPT ![r] = [endpoint |-> "entity", pc |-> "process",
                                data |-> [fileInfo |-> entityFiles,
                                          loaded |-> entityLoaded(entityFiles)],
                                response |-> NoResponse]]

\* after Promise.all: validation, processing, the return and GET's response
RespondEntity(r) ==
  /\ req[r].endpoint = "entity"
  /\ req[r].pc = "process"
  /\ req' = [req EXCEPT
       ![r].response = respond("entity", entityResult(localData(r).fileInfo,
                                                     localData(r).loaded)),
       ![r].pc = "done"]

\* the response is sent
Finish(r) ==
  /\ req[r].pc = "done"
  /\ req' = [req EXCEPT ![r] = NoRequest]

InFlightNext ==
  \/ InFlightEnv
  \/ \E r \in Requests :
       /\ StartClassification(r) \/ FillSection(r) \/ RespondClassification(r)
            \/ StartEntity(r) \/ RespondEntity(r) \/ Finish(r)
       /\ UNCHANGED <<files, resp, ownerRecords, ownerResult, tlResult, input, output>>

SpecInFlight == IdleInit /\ [][InFlightNext]_vars

(***************************************************************************)
(* Properties of requests in flight                                        *)
(***************************************************************************)
\* the response of a request that has the server to itself
ResponseAlone(endpoint) ==
  IF endpoint = "classification" THEN respond("classification", getClassificationData)
  ELSE respond("entity", getEntityData)

\* C14: concurrent requests share no mutable state: however two or more
\* requests over unchanged files interleave, the response of each equals the
\* response it produces when run alone.
C14_ResponseAsAlone ==
  \A r \in Requests :
    req[r].pc = "done" => req[r].response = ResponseAlone(req[r].endpoint)

\* two classification requests over a file with records: one has answered
\* with data while the other is between two of its sections
C14_Witness ==
  \E r, q \in Requests :
    /\ r # q
    /\ req[r].pc = "done"
    /\ req[r].endpoint = "classification"
    /\ req[r].response.body.success
    /\ req[q].endpoint = "classification"
    /\ req[q].pc = "cpcByOwner"

(***************************************************************************)
(* Cells read as numbers: parseTotal, part_005's processCountryData and    *)
(* parseNumber on a cell typed one character at a time                     *)
(***************************************************************************)
\* bound of the model: the longest cell typed
MaxCellLen == 3

\* the characters of a cell: a sign, a digit, a thousands separator, a blank
CellChars == {"-", "3", ",", " "}

TypeCell ==
  /\ Idle
  /\ ~output.done
  /\ Len(input) < MaxCellLen
  /\ \E c \in CellChars : input' = Append(input, c)
  /\ UNCHANGED <<files, resp, ownerRecords, ownerResult, tlResult, output, req>>

\* the totals the aggregators make of a row whose count cell is `cell`
TotalsOfCell(cell) ==
  [countryTotal |-> parseTotal(cell),
   countryTotals_p005 |->
     MapSeq(processCountryData_p005(<<FamilyRow(<<"N", "O">>, cell)>>, FAMILY_COUNTRY),
            LAMBDA item : item.total),
   cellValue |-> parseNumber(cell)]

ParseCell ==
  /\ Idle
  /\ ~output.done
  /\ output' = Done(TotalsOfCell(input))
  /\ UNCHANGED <<files, resp, ownerRecords, ownerResult, tlResult, input, req>>

TotalsNext == TypeCell \/ ParseCell \/ EndCall

SpecTotals == IdleInit /\ [][TotalsNext]_vars

NonNegativeTotals(totals) ==
  /\ totals.countryTotal >= 0
  /\ \A i \in DOMAIN totals.countryTotals_p005 : totals.countryTotals_p005[i] >= 0
  /\ totals.cellValue >= 0

\* C15: every total or count in an aggregator's output (country totals,
\* classification cell values) is a non-negative integer, whatever the cell
\* of the CSV file is.
C15_NonNegativeTotals == output.done => NonNegativeTotals(output.rows)

\* what the parsers hold to: a cell without a minus sign gives no negative
\* total
C15_NonNegativeWithoutSign ==
  (output.done /\ ~SeqContains(input, "-")) => NonNegativeTotals(output.rows)

(***************************************************************************)
(* Labels: cleanOwnerName, cleanClassificationName and the owner cleaning  *)
(* of convertToLongFormat on a label typed one character at a time         *)
(***************************************************************************)
\* bound of the model: the longest label typed
MaxLabelLen == 4

\* the characters of a label: a blank, the two quotes, a letter, a colon
LabelChars == {" ", "\"", "'", "A", ":"}

TypeLabel ==
  /\ Idle
  /\ ~output.done
  /\ Len(input) < MaxLabelLen
  /\ \E c \in LabelChars : input' = Append(input, c)
  /\ UNCHANGED <<files, resp, ownerRecords, ownerResult, tlResult, output, req>>

CleanedLabels(label) ==
  [owner |-> cleanOwnerName(label),
   classification |-> cleanClassificationName(label),
   timelineOwner |-> ownerOfRow(SetProp(EmptyObject, TimelineHeader[1], label),
                                TimelineHeader[1])]

CleanLabel ==
  /\ Idle
  /\ ~output.done
  /\ output' = Done(CleanedLabels(input))
  /\ UNCHANGED <<files, resp, ownerRecords, ownerResult, tlResult, input, req>>

LabelsNext == TypeLabel \/ CleanLabel \/ EndCall

SpecLabels == IdleInit /\ [][LabelsNext]_vars

\* s neither starts nor ends with one of chars
NoEdge(s, chars) == s = <<>> \/ (Head(s) \notin chars /\ s[Len(s)] \notin chars)

\* C16: for every input string, the result of cleanOwnerName, of
\* cleanClassificationName and of the timeline owner cleaning neither starts
\* nor ends with whitespace or a quote character (" or ').
C16_TrimmedAndDequoted ==
  output.done =>
    /\ NoEdge(output.rows.owner, Whitespace \cup Quotes)
    /\ NoEdge(output.rows.classification, Whitespace \cup Quotes)
    /\ NoEdge(output.rows.timelineOwner, Whitespace \cup Quotes)

\* what the cleaning holds to: no result starts or ends with whitespace, and
\* the timeline owner holds no double quote at all
C16_Trimmed ==
  output.done =>
    /\ NoEdge(output.rows.owner, Whitespace)
    /\ NoEdge(output.rows.classification, Whitespace)
    /\ NoEdge(output.rows.timelineOwner, Whitespace)
    /\ ~SeqContains(output.rows.timelineOwner, "\"")

(***************************************************************************)
(* Properties of the classification columns of processOwnerClassification  *)
(***************************************************************************)
\* the sums of the columns keys[i], keys[i + 1], ... over `rows`
RECURSIVE ColumnSums(_, _, _)
ColumnSums(keys, rows, i) ==
  IF i > Len(keys) THEN <<>>
  ELSE <<SumSeq([r \in 1..Len(rows) |-> parseNumber(GetProp(rows[r], keys[i]))])>>
         \o ColumnSums(keys, rows, i + 1)

\* the columns in the order: larger sum first, and among equal sums the
\* earlier column first; at most 5 of them
StatedTopColumns(keys, sum) ==
  LET n == Len(sum)
      before(i) == Cardinality({j \in 1..n : sum[j] > sum[i] \/ (sum[j] = sum[i] /\ j < i)})
      m == IF n < 5 THEN n ELSE 5
  IN [p \in 1..m |-> keys[2 + (CHOOSE i \in 1..n : before(i) = p - 1)]]

\* the classification columns of an output row, in the order of its keys
ColumnsKept(item) == SubSeq(item.keys, 3, Len(item.keys))

\* C17: the classification columns kept by processOwnerClassification are the
\* up to 5 columns, from the third on, with the largest column sums over all
\* valid rows (not only over the returned rows); among columns with equal
\* sums the one earlier in the header comes first.
C17_TopColumnsOverAllRows ==
  (ownerResult.done /\ ownerResult.rows # <<>>) =>
    LET valid == validOwnerRecords(ownerRecords)
        keys == ObjectKeys(valid[1])
        top == StatedTopColumns(keys, ColumnSums(keys, valid, 3))
        kept == [p \in DOMAIN top |-> cleanClassificationName(top[p])]
    IN \A i \in DOMAIN ownerResult.rows : ColumnsKept(ownerResult.rows[i]) = kept

\* rows came back, and a valid row beyond the returned ones decided which
\* columns are kept: the sums over the first 15 valid rows alone select other
\* columns
C17_Witness ==
  /\ ownerResult.done
  /\ ownerResult.rows # <<>>
  /\ LET valid == validOwnerRecords(ownerRecords)
         keys == ObjectKeys(valid[1])
     IN /\ Len(valid) > 15
        /\ StatedTopColumns(keys, ColumnSums(keys, valid, 3))
             # StatedTopColumns(keys, ColumnSums(keys, slice0(valid, 15), 3))

(***************************************************************************)
(* Order of the country records                                            *)
(***************************************************************************)
NonIncreasing(totals) == \A i, j \in DOMAIN totals : i < j => totals[i] >= totals[j]

\* what part_004 holds to: the list form and the special regions are sorted
\* by descending total (the map form is in file order)
ListsSorted_p004(data) ==
  /\ NonIncreasing(Totals(data.familyData.list))
  /\ NonIncreasing(Totals(data.priorityData.list))
  /\ NonIncreasing(Totals(data.familySpecialRegions))
  /\ NonIncreasing(Totals(data.prioritySpecialRegions))

\* C18: every list of country records returned by the geographic aggregator
\* (family and priority data, map and list form) and every list of
\* special-region records is in non-increasing order of total.
C18_SortedByTotal ==
  /\ Answered("geographic_p004") =>
       /\ ListsSorted_p004(resp.body.data)
       /\ NonIncreasing(Totals(resp.body.data.familyData.map))
       /\ NonIncreasing(Totals(resp.body.data.priorityData.map))
  /\ Answered("geographic_p005") =>
       /\ NonIncreasing(Totals(resp.body.data.familyData))
       /\ NonIncreasing(Totals(resp.body.data.priorityData))

C18_ListsSorted_p004 == Answered("geographic_p004") => ListsSorted_p004(resp.body.data)

(***************************************************************************)
(* normalizeAssigneeData and processInventorData at work: a request parses *)
(* an assignee file or an inventor file row by row, aggregates, and ends.  *)
(***************************************************************************)
\* bounds of the model: the longest inventor and assignee files parsed
MaxInventorRows == 3

MaxAssigneeRows == 3

\* the rows of Inventor_Country.csv: an inventor in two countries, once with
\* blanks around the name, a second inventor, a row without inventor, and a
\* row of a file with an upper-case header
InventorRowKinds == {
  InventorRow(<<"N", "O">>, <<"A", "n", "n">>),
  InventorRow(<<"D", "K">>, <<" ", "A", "n", "n", " ">>),
  InventorRow(<<"S", "E">>, <<"B", "o", "b">>),
  InventorRow(<<"F", "I">>, <<>>),
  [keys |-> <<<<"C", "O", "U", "N", "T", "R", "Y">>, <<"I", "N", "V", "E", "N", "T", "O", "R">>>>, vals |-> <<<<"S", "E">>, <<"C", "y">>>>] }

\* the rows of the assignee file: two assignees in ascending order of count,
\* a row of a file with an upper-case header whose count equals an earlier
\* one, an assignee without patents, a row without assignee and a count that
\* is no number
AssigneeRowKinds == {
  AssigneeRow(<<"N", "O">>, <<"A", "c", "m", "e">>, <<"5">>),
  AssigneeRow(<<"D", "K">>, <<"B", "e", "t", "a">>, <<"9">>),
  [keys |-> <<<<"C", "O", "U", "N", "T", "R", "Y">>, <<"A", "S", "S", "I", "G", "N", "E", "E">>, <<"C", "O", "U", "N", "T">>>>, vals |-> <<<<"S", "E">>, <<"G", "a", "m", "m", "a">>, <<"5">>>>],
  AssigneeRow(<<"F", "I">>, <<"D", "e", "l", "t", "a">>, <<"0">>),
  AssigneeRow(<<"N", "O">>, <<>>, <<"3">>),
  AssigneeRow(<<"S", "E">>, <<"E", "t", "a">>, <<"n", "/", "a">>) }

IsInventorFile(rows) == \A i \in DOMAIN rows : rows[i] \in InventorRowKinds

IsAssigneeFile(rows) == \A i \in DOMAIN rows : rows[i] \in AssigneeRowKinds

\* csv-parse delivers the next row of the file
ParseEntityRow ==
  /\ Idle
  /\ ~output.done
  /\ \/ /\ IsInventorFile(input)
        /\ Len(input) < MaxInventorRows
        /\ \E row \in InventorRowKinds : input' = Append(input, row)
     \/ /\ IsAssigneeFile(input)
        /\ Len(input) < MaxAssigneeRows
        /\ \E row \in AssigneeRowKinds : input' = Append(input, row)
  /\ UNCHANGED <<files, resp, ownerRecords, ownerResult, tlResult, output, req>>

\* getEntityData, lines 226-241: each list is made of the records of its file
ProcessEntityRows ==
  /\ Idle
  /\ ~output.done
  /\ output' = Done([assigneeData |-> IF Len(input) > 0 /\ IsAssigneeFile(input)
                                      THEN normalizeAssigneeData(input) ELSE <<>>,
                     inventorData |-> IF Len(input) > 0 /\ IsInventorFile(input)
                                      THEN processInventorData(input) ELSE <<>>])
  /\ UNCHANGED <<files, resp, ownerRecords, ownerResult, tlResult, input, req>>

EntityRowsNext == ParseEntityRow \/ ProcessEntityRows \/ EndCall

SpecEntityRows == IdleInit /\ [][EntityRowsNext]_vars

(***************************************************************************)
(* Properties of processInventorData and normalizeAssigneeData             *)
(***************************************************************************)
\* the cell of a row in the column headed `name` in any casing, trimmed;
\* empty when the row has no such column
CellOf(row, name) ==
  LET at == {i \in DOMAIN row.keys : toLowerCase(trim(row.keys[i])) = name}
  IN IF at = {} THEN <<>> ELSE trim(row.vals[CHOOSE i \in at : TRUE])

\* one record per distinct non-empty inventor name, in the order of the first
\* row of each name
StatedInventors(rows) ==
  LET name == [i \in DOMAIN rows |-> CellOf(rows[i], INVENTOR_KEY)]
      first == SelectSeq([i \in DOMAIN rows |-> i], LAMBDA i :
                 name[i] # <<>> /\ \A j \in 1..(i - 1) : name[j] # name[i])
  IN [p \in DOMAIN first |->
        [country |-> CellOf(rows[first[p]], COUNTRY_KEY),
         inventor |-> name[first[p]],
         count |-> Cardinality({j \in DOMAIN rows : name[j] = name[first[p]]})]]

\* C19: processInventorData returns exactly one record per distinct non-empty
\* trimmed inventor name; its count is the number of input rows with that
\* name and its country is the country of the first such row; rows with an
\* empty inventor are ignored.
C19_OneRecordPerInventor ==
  (output.done /\ IsInventorFile(input)) =>
    LET result == output.rows.inventorData
        stated == StatedInventors(input)
    IN /\ Len(result) = Len(stated)
       /\ \A p \in DOMAIN stated : \E i \in DOMAIN result : result[i] = stated[p]
       /\ \A i, j \in DOMAIN result : result[i].inventor = result[j].inventor => i = j

\* an inventor of two rows, with different countries and different blanks,
\* came out once with count 2 and the first country, next to a row without
\* inventor that left no record
C19_Witness ==
  /\ output.done
  /\ IsInventorFile(input)
  /\ \E i, j, k \in DOMAIN input :
       /\ i < j
       /\ GetProp(input[i], input[i].keys[2]) # GetProp(input[j], input[j].keys[2])
       /\ CellOf(input[i], INVENTOR_KEY) = CellOf(input[j], INVENTOR_KEY)
       /\ CellOf(input[i], COUNTRY_KEY) # CellOf(input[j], COUNTRY_KEY)
       /\ CellOf(input[k], INVENTOR_KEY) = <<>>
       /\ output.rows.inventorData =
            <<[country |-> CellOf(input[i], COUNTRY_KEY),
               inventor |-> CellOf(input[i], INVENTOR_KEY), count |-> 2]>>

\* the records of the rows with an assignee count above 0, in file order
StatedAssignees(rows) ==
  LET count == [i \in DOMAIN rows |-> parseInt(OrElse(CellOf(rows[i], COUNT_KEY), <<"0">>))]
      kept == SelectSeq([i \in DOMAIN rows |-> i], LAMBDA i :
                ~count[i].nan /\ count[i].val > 0)
  IN [p \in DOMAIN kept |->
        [country |-> CellOf(rows[kept[p]], COUNTRY_KEY),
         assignee |-> OrElse(CellOf(rows[kept[p]], ASSIGNEE_KEY), <<"U", "n", "k", "n", "o", "w", "n">>),
         count |-> count[kept[p]].val]]

\* `result` is `stated` put in non-increasing order of count, the records of
\* equal count in the order they have in `stated`
SortedByCountKeepingOrder(result, stated) ==
  /\ Len(result) = Len(stated)
  /\ \A i, j \in DOMAIN result : i < j => result[i].count >= result[j].count
  /\ \A c \in {stated[p].count : p \in DOMAIN stated} :
       SelectSeq(result, LAMBDA r : r.count = c) = SelectSeq(stated, LAMBDA r : r.count = c)

\* C20: assigneeData and inventorData are each in non-increasing order of
\* count, records of equal count in their input order; every assignee record
\* has a count above 0, read from the count column under any casing of the
\* header.
C20_SortedByCount ==
  output.done =>
    /\ SortedByCountKeepingOrder(output.rows.assigneeData,
                                 IF IsAssigneeFile(input) THEN StatedAssignees(input) ELSE <<>>)
    /\ SortedByCountKeepingOrder(output.rows.inventorData,
                                 IF IsInventorFile(input) THEN StatedInventors(input) ELSE <<>>)
    /\ \A i \in DOMAIN output.rows.assigneeData : output.rows.assigneeData[i].count > 0

\* three assignee rows came out in another order than they went in: the
\* largest count, read under an upper-case or a capitalised header, moved to
\* the front, and two records of equal count kept their order
C20_Witness ==
  /\ output.done
  /\ Len(input) = 3
  /\ IsAssigneeFile(input)
  /\ \E i \in DOMAIN input : input[i].keys[3] = <<"C", "O", "U", "N", "T">>
  /\ LET result == output.rows.assigneeData
     IN /\ Len(result) = 3
        /\ result[1].count > result[2].count
        /\ result[2].count = result[3].count
        /\ result[2].assignee # result[3].assignee
        /\ result[1].assignee = CellOf(input[3], ASSIGNEE_KEY)

(***************************************************************************)
(* The columns of the timeline file: extractYearsAndOwnerKey and the GET   *)
(* of app/api/timeline/route.ts on a header read one column at a time      *)
(***************************************************************************)
\* the UTF-16 code units of the model in ascending order
CodeUnits == <<" ">> \o Digits \o UpperLetters \o LowerLetters

CodeUnit(c) == CHOOSE i \in DOMAIN CodeUnits : CodeUnits[i] = c

\* a < b as Array.prototype.sort() without comparator orders strings
RECURSIVE StringLess(_, _)
StringLess(a, b) ==
  IF b = <<>> THEN FALSE
  ELSE IF a = <<>> THEN TRUE
  ELSE IF Head(a) # Head(b) THEN CodeUnit(Head(a)) < CodeUnit(Head(b))
  ELSE StringLess(Tail(a), Tail(b))

\* array.sort() on strings
sortStrings(s) ==
  LET rank(i) == 1 + Cardinality({j \in 1..Len(s) :
                       StringLess(s[j], s[i]) \/ (s[j] = s[i] /\ j < i)})
  IN [p \in 1..Len(s) |-> s[CHOOSE i \in 1..Len(s) : rank(i) = p]]

\* app/api/timeline/route.ts, lines 43-77: the owner key is the first key that
\* is no year in 2000..2030 and not blank, else the first key; the year keys
\* are those in 2000..2025, sorted as strings
timelineRouteColumns(firstRow) ==
  LET allKeys == ObjectKeys(firstRow)
      yearVal(k) == parseInt(k)
      isYear(k) == ~yearVal(k).nan /\ yearVal(k).val >= 2000 /\ yearVal(k).val <= 2030
      candidates == SelectSeq(allKeys, LAMBDA k : ~isYear(k) /\ trim(k) # <<>>)
      yearKeys == sortStrings(SelectSeq(allKeys, LAMBDA k :
                    ~yearVal(k).nan /\ yearVal(k).val >= 2000 /\ yearVal(k).val <= 2025))
  IN [years |-> yearKeys,
      ownerKey |-> IF Len(candidates) > 0 THEN candidates[1] ELSE At(allKeys, 0)]

\* bound of the model: the columns of the longest header read
MaxHeaderLen == 3

\* the headers of the columns: two names, years inside YEAR_RANGE and a year
\* before it
HeaderKeys == {<<"N", "a", "m", "e">>, <<"C", "u", "r", "r", "e", "n", "t", " ", "O", "w", "n", "e", "r">>, <<"2", "0", "1", "9">>, <<"2", "0", "2", "0">>, <<"2", "0", "2", "7">>, <<"1", "9", "9", "9">>}

\* the first record of a file with the header `header`
FirstRowOf(header) == [keys |-> header, vals |-> [i \in DOMAIN header |-> <<"1">>]]

\* csv-parse reads the next column of the header line
ReadHeaderKey ==
  /\ Idle
  /\ ~output.done
  /\ Len(input) < MaxHeaderLen
  /\ \E k \in HeaderKeys :
       /\ ~SeqContains(input, k)
       /\ input' = Append(input, k)
  /\ UNCHANGED <<files, resp, ownerRecords, ownerResult, tlResult, output, req>>

\* both endpoints work out the columns of records[0]
ExtractColumns ==
  /\ Idle
  /\ ~output.done
  /\ Len(input) > 0
  /\ output' = Done([timeline |-> extractYearsAndOwnerKey(FirstRowOf(input)),
                     route |-> timelineRouteColumns(FirstRowOf(input))])
  /\ UNCHANGED <<files, resp, ownerRecords, ownerResult, tlResult, input, req>>

ColumnsNext == ReadHeaderKey \/ ExtractColumns \/ EndCall

SpecColumns == IdleInit /\ [][ColumnsNext]_vars

(***************************************************************************)
(* Properties of the columns of the timeline file                          *)
(***************************************************************************)
IsStatedYear(k) ==
  ~parseInt(k).nan /\ parseInt(k).val >= 2000 /\ parseInt(k).val <= 2030

\* the columns are as stated: the years are the keys that parse to an integer
\* in 2000..2030, ascending; the owner key is the first non-year key whose
\* name contains "owner", else the first non-year key
StatedColumns(header, years, ownerKey) ==
  LET nonYear == SelectSeq(header, LAMBDA k : ~IsStatedYear(k))
      named == SelectSeq(nonYear, LAMBDA k : includes(toLowerCase(k), <<"o", "w", "n", "e", "r">>))
  IN /\ {years[i] : i \in DOMAIN years} = {k \in Range(header) : IsStatedYear(k)}
     /\ Len(years) = Cardinality({k \in Range(header) : IsStatedYear(k)})
     /\ \A i, j \in DOMAIN years : i < j => parseInt(years[i]).val < parseInt(years[j]).val
     /\ nonYear # <<>> => ownerKey = (IF named # <<>> THEN named[1] ELSE nonYear[1])

\* C21: the year columns reported by the timeline endpoint are exactly the
\* header keys that parse to an integer in 2000..2030, in ascending order;
\* the owner key is the first non-year key whose name contains "owner", else
\* the first non-year key.
C21_YearAndOwnerColumns ==
  output.done =>
    /\ ~output.rows.timeline.threw =>
         StatedColumns(input, output.rows.timeline.years, output.rows.timeline.ownerKey)
    /\ StatedColumns(input, output.rows.route.years, output.rows.route.ownerKey)

\* what extractYearsAndOwnerKey holds to: the statement with "first" read in
\* the order of Object.keys, which puts a column headed by an integer (1999)
\* before the named columns; it throws exactly when the header has no year
\* column or nothing but year columns
C21_YearAndOwnerColumns_extract ==
  output.done =>
    IF output.rows.timeline.threw
    THEN \/ \A i \in DOMAIN input : ~IsStatedYear(input[i])
         \/ \A i \in DOMAIN input : IsStatedYear(input[i])
    ELSE StatedColumns(ObjectKeys(FirstRowOf(input)),
                       output.rows.timeline.years, output.rows.timeline.ownerKey)

(***************************************************************************)
(* Timeline aggregates: calculateYearTotals, calculateTopOwners,           *)
(* calculateSummaryStats and getTimelineData                               *)
(***************************************************************************)
TOP_OWNERS_LIMIT == 8

\* one entry per point in place of one per owner
RECURSIVE ownerMap_unmerged(_)
ownerMap_unmerged(longData) ==
  IF longData = <<>> THEN <<>>
  ELSE Append(ownerMap_unmerged(SubSeq(longData, 1, Len(longData) - 1)),
              [owner |-> longData[Len(longData)].owner,
               total |-> longData[Len(longData)].count])

\* ownerMap after the loop: the entries in the order of their insertion
RECURSIVE ownerMap(_)
ownerMap(longData) ==
  IF longData = <<>> THEN <<>>
  ELSE LET before == ownerMap(SubSeq(longData, 1, Len(longData) - 1))
           item == longData[Len(longData)]
       IN IF \E i \in DOMAIN before : before[i].owner = item.owner
          THEN [i \in DOMAIN before |->
                  IF before[i].owner = item.owner
                  THEN [before[i] EXCEPT !.total = @ + item.count] ELSE before[i]]
          ELSE Append(before, [owner |-> item.owner, total |-> item.count])

calculateTopOwners(longData, limit) ==
  slice0(SortDescBy(ownerMap(longData), LAMBDA e : e.total), limit)

\* one entry per point in place of one per year
RECURSIVE yearMap_unmerged(_)
yearMap_unmerged(longData) ==
  IF longData = <<>> THEN <<>>
  ELSE Append(yearMap_unmerged(SubSeq(longData, 1, Len(longData) - 1)),
              [year |-> longData[Len(longData)].year,
               total |-> longData[Len(longData)].count])

\* yearMap (and yearCounts) after the loop, in the order of insertion
RECURSIVE yearMap(_)
yearMap(longData) ==
  IF longData = <<>> THEN <<>>
  ELSE LET before == yearMap(SubSeq(longData, 1, Len(longData) - 1))
           item == longData[Len(longData)]
       IN IF \E i \in DOMAIN before : before[i].year = item.year
          THEN [i \in DOMAIN before |->
                  IF before[i].year = item.year
                  THEN [before[i] EXCEPT !.total = @ + item.count] ELSE before[i]]
          ELSE Append(before, [year |-> item.year, total |-> item.count])

calculateYearTotals(longData) ==
  SortDescBy(yearMap(longData), LAMBDA e : 0 - e.year)

\* `${n}` for a number n >= 0
RECURSIVE numberToString(_)
numberToString(n) ==
  IF n < 10 THEN <<Digits[n + 1]>>
  ELSE Append(numberToString(n \div 10), Digits[(n % 10) + 1])

\* the forEach over yearCounts: a later year replaces the peak only with a
\* larger count
RECURSIVE peakOf(_, _)
peakOf(yearCounts, start) ==
  IF yearCounts = <<>> THEN start
  ELSE LET before == peakOf(SubSeq(yearCounts, 1, Len(yearCounts) - 1), start)
           entry == yearCounts[Len(yearCounts)]
       IN IF entry.total > before.peakCount
          THEN [peakYear |-> entry.year, peakCount |-> entry.total]
          ELSE before

\* Math.min(...years), Math.max(...years) of a non-empty list
MinOf(numbers) == CHOOSE m \in Range(numbers) : \A n \in Range(numbers) : m <= n

MaxOf(numbers) == CHOOSE m \in Range(numbers) : \A n \in Range(numbers) : m >= n

calculateSummaryStats(longData) ==
  LET years == [i \in DOMAIN longData |-> longData[i].year]
      minYear == MinOf(years)
      maxYear == MaxOf(years)
      peak == peakOf(yearMap(longData), [peakYear |-> minYear, peakCount |-> 0])
  IN [totalPatents |-> SumSeq([i \in DOMAIN longData |-> longData[i].count]),
      uniqueOwners |-> Cardinality({longData[i].owner : i \in DOMAIN longData}),
      dateRange |-> numberToString(minYear) \o <<" ", "-", " ">> \o numberToString(maxYear),
      peakYear |-> numberToString(peak.peakYear),
      peakCount |-> peak.peakCount]

\* getTimelineData; rawData.displayData, a copy of the first rows for
\* display, is left out of the body
getTimelineData ==
  LET loaded == loadCsvData_timeline(TIMELINE_FILE)
      records == loaded.records
      structure == extractYearsAndOwnerKey(records[1])
      longFormatData == convertToLongFormat(records, structure.years, structure.ownerKey)
  IN IF loaded.threw THEN Failure(loaded.message)
     ELSE IF Len(records) = 0
     THEN Failure("No data found in Timeline_Current_Owner_Count.csv")
     ELSE IF structure.threw THEN Failure(structure.message)
     ELSE IF Len(longFormatData) = 0
     THEN Failure("No valid data points found after processing")
     ELSE Success([rawData |-> [data |-> records, years |-> structure.years,
                                ownerKey |-> structure.ownerKey],
                   longFormatData |-> longFormatData,
                   yearTotals |-> calculateYearTotals(longFormatData),
                   topOwners |-> calculateTopOwners(longFormatData, TOP_OWNERS_LIMIT),
                   summaryStats |-> calculateSummaryStats(longFormatData)])

\* GET /api/timeline
GET_timeline ==
  /\ Idle
  /\ resp' = respond("timeline", getTimelineData)
  /\ UNCHANGED <<files, ownerRecords, ownerResult, tlResult, input, output, req>>

TimelineGetNext == TimelineEnv \/ GET_timeline \/ Deliver

SpecTimelineGet == IdleInit /\ [][TimelineGetNext]_vars

(***************************************************************************)
(* calculateTopOwners at work on the points of a file with many owners     *)
(***************************************************************************)
\* bounds of the model: the points that differ come first, at most
\* MaxVariedPoints of them; points of further owners follow up to MaxPoints
MaxVariedPoints == 2

MaxPoints == 11

Point(owner, year, count) == [owner |-> owner, year |-> year, count |-> count]

\* an owner with points in two years, a second owner with more patents and a
\* third with fewer
PointKinds == {
  Point(<<"A", "c", "m", "e">>, 2019, 3),
  Point(<<"A", "c", "m", "e">>, 2020, 2),
  Point(<<"B", "e", "t", "a">>, 2020, 9),
  Point(<<"Z", "e", "t", "a">>, 2019, 1) }

\* the point of the i-th further owner
FillerPoint(i) == Point(<<"F">> \o numberToString(i), 2020, 2)

\* a last owner with more patents than every other
TailPoint == Point(<<"T", "a", "i", "l">>, 2021, 50)

\* convertToLongFormat pushes the next point
PushPoint ==
  /\ Idle
  /\ ~output.done
  /\ \/ /\ Len(input) < MaxVariedPoints
        /\ \E point \in PointKinds : input' = Append(input, point)
     \/ /\ Len(input) >= MaxVariedPoints
        /\ Len(input) < MaxPoints
        /\ input' = Append(input, FillerPoint(Len(input)))
     \/ /\ Len(input) >= MaxVariedPoints
        /\ Len(input) = MaxPoints - 1
        /\ input' = Append(input, TailPoint)
  /\ UNCHANGED <<files, resp, ownerRecords, ownerResult, tlResult, output, req>>

\* const topOwners = calculateTopOwners(longFormatData)
TopOwners ==
  /\ Idle
  /\ ~output.done
  /\ Len(input) > 0
  /\ output' = Done(calculateTopOwners(input, TOP_OWNERS_LIMIT))
  /\ UNCHANGED <<files, resp, ownerRecords, ownerResult, tlResult, input, req>>

PointsNext == PushPoint \/ TopOwners \/ EndCall

SpecPoints == IdleInit /\ [][PointsNext]_vars

(***************************************************************************)
(* Properties of the timeline aggregates                                   *)
(***************************************************************************)
\* the sum of the counts of the points of one owner
CountOfOwner(longData, owner) ==
  SumSeq([i \in DOMAIN longData |->
            IF longData[i].owner = owner THEN longData[i].count ELSE 0])

\* the sum of the counts of the points of one year
CountOfYear(longData, year) ==
  SumSeq([i \in DOMAIN longData |->
            IF longData[i].year = year THEN longData[i].count ELSE 0])

\* C22: calculateTopOwners returns at most 8 owners, each once with the sum
\* of its counts over all points of that owner name, in non-increasing order
\* of total, and no owner outside the list has a total greater than that of
\* a listed owner.
C22_TopOwners ==
  output.done =>
    LET top == output.rows
        owners == {input[i].owner : i \in DOMAIN input}
        listed == {top[i].owner : i \in DOMAIN top}
    IN /\ Len(top) = (IF Cardinality(owners) < 8 THEN Cardinality(owners) ELSE 8)
       /\ \A i, j \in DOMAIN top : top[i].owner = top[j].owner => i = j
       /\ \A i \in DOMAIN top :
            /\ top[i].owner \in owners
            /\ top[i].total = CountOfOwner(input, top[i].owner)
       /\ \A i, j \in DOMAIN top : i < j => top[i].total >= top[j].total
       /\ \A o \in owners \ listed :
            \A i \in DOMAIN top : CountOfOwner(input, o) <= top[i].total

\* more than 8 owners went in, one of them with two points; 8 came out, the
\* owner of the last point first, and an owner was left out
C22_Witness ==
  /\ output.done
  /\ Cardinality({input[i].owner : i \in DOMAIN input}) > 8
  /\ \E i, j \in DOMAIN input : i < j /\ input[i].owner = input[j].owner
  /\ Len(output.rows) = 8
  /\ output.rows[1].owner = input[Len(input)].owner
  /\ output.rows[1].total > output.rows[2].total

\* C23: on every successful timeline response totalPatents equals the sum of
\* count over longFormatData and the sum of total over yearTotals; yearTotals
\* has exactly one entry per distinct year of longFormatData, in ascending
\* year order; uniqueOwners is the number of distinct owners of
\* longFormatData.
C23_TotalsAgree ==
  Answered("timeline") =>
    LET longData == resp.body.data.longFormatData
        yearTotals == resp.body.data.yearTotals
        stats == resp.body.data.summaryStats
        years == {longData[i].year : i \in DOMAIN longData}
    IN /\ stats.totalPatents = SumSeq([i \in DOMAIN longData |-> longData[i].count])
       /\ stats.totalPatents = SumSeq([i \in DOMAIN yearTotals |-> yearTotals[i].total])
       /\ {yearTotals[i].year : i \in DOMAIN yearTotals} = years
       /\ Len(yearTotals) = Cardinality(years)
       /\ \A i, j \in DOMAIN yearTotals : i < j => yearTotals[i].year < yearTotals[j].year
       /\ stats.uniqueOwners = Cardinality({longData[i].owner : i \in DOMAIN longData})

\* a response over points of two years and two owners, a year and an owner
\* with more than one point, the later year met first
C23_Witness ==
  /\ Answered("timeline")
  /\ LET longData == resp.body.data.longFormatData
     IN /\ Len(resp.body.data.yearTotals) = 2
        /\ resp.body.data.summaryStats.uniqueOwners = 2
        /\ Len(longData) > 2
        /\ longData[1].year > resp.body.data.yearTotals[1].year

\* C24: on every successful timeline response longFormatData is non-empty,
\* peakCount is the largest per-year total, peakYear is a year attaining it,
\* the earliest when several attain it, and peakYear lies within dateRange.
C24_PeakYear ==
  Answered("timeline") =>
    LET longData == resp.body.data.longFormatData
        stats == resp.body.data.summaryStats
        years == {longData[i].year : i \in DOMAIN longData}
        peakYear == parseInt(stats.peakYear).val
        largest == CHOOSE t \in {CountOfYear(longData, y) : y \in years} :
                     \A y \in years : CountOfYear(longData, y) <= t
    IN /\ longData # <<>>
       /\ stats.peakCount = largest
       /\ peakYear \in years
       /\ CountOfYear(longData, peakYear) = largest
       /\ \A y \in years : CountOfYear(longData, y) = largest => peakYear <= y
       /\ stats.dateRange = numberToString(MinOf([i \in DOMAIN longData |-> longData[i].year]))
                              \o <<" ", "-", " ">>
                              \o numberToString(MaxOf([i \in DOMAIN longData |-> longData[i].year]))
       /\ MinOf([i \in DOMAIN longData |-> longData[i].year]) <= peakYear
       /\ peakYear <= MaxOf([i \in DOMAIN longData |-> longData[i].year])

\* what calculateSummaryStats holds to: among the years with the largest
\* total, peakYear is the one met first in longFormatData
C24_PeakYearMetFirst ==
  Answered("timeline") =>
    LET longData == resp.body.data.longFormatData
        stats == resp.body.data.summaryStats
        years == {longData[i].year : i \in DOMAIN longData}
        peakYear == parseInt(stats.peakYear).val
        firstAt(y) == CHOOSE i \in DOMAIN longData :
                        longData[i].year = y /\ \A j \in 1..(i - 1) : longData[j].year # y
    IN /\ longData # <<>>
       /\ peakYear \in years
       /\ stats.peakCount = CountOfYear(longData, peakYear)
       /\ \A y \in years : CountOfYear(longData, y) <= stats.peakCount
       /\ \A y \in years :
            CountOfYear(longData, y) = stats.peakCount => firstAt(peakYear) <= firstAt(y)
       /\ MinOf([i \in DOMAIN longData |-> longData[i].year]) <= peakYear
       /\ peakYear <= MaxOf([i \in DOMAIN longData |-> longData[i].year])

(***************************************************************************)
(* processYearClassification at work: a request parses a file of           *)
(* classifications by year row by row, aggregates, and ends.               *)
(***************************************************************************)
\* bound of the model: the longest file of classifications by year parsed
MaxYearRows == 3

\* the rows of the file: a year, an earlier year, the first year again with
\* other counts, a year written with a separator, years before and after the
\* range, a repeated header line and an empty line of separators
VariedYearRows == {
  YearRow(<<"2", "0", "1", "5">>, <<<<"3">>, <<"1">>>>),
  YearRow(<<"2", "0", "1", "2">>, <<<<"4">>, <<"0">>>>),
  YearRow(<<"2", "0", "1", "5">>, <<<<"7">>, <<"2">>>>),
  YearRow(<<"2", ",", "0", "1", "4">>, <<<<"1">>, <<"1">>>>),
  YearRow(<<"2", "0", "0", "9">>, <<<<"5">>, <<"5">>>>),
  YearRow(<<"2", "0", "2", "6">>, <<<<"6">>, <<"6">>>>),
  YearRow(<<"Y", "e", "a", "r">>, <<<<"G", "0", "6", "N", ":", " ", "C", "o", "m", "p", "u", "t", "i", "n", "g">>, <<"H", "0", "4", "L">>>>),
  YearRow(<<>>, <<<<"-", "-", "-">>, <<"-", "-", "-">>>>) }

\* csv-parse delivers the next row
ParseYearRow ==
  /\ Idle
  /\ ~output.done
  /\ Len(input) < MaxYearRows
  /\ \E row \in VariedYearRows : input' = Append(input, row)
  /\ UNCHANGED <<files, resp, ownerRecords, ownerResult, tlResult, output, req>>

\* data.cpcByYear = processYearClassification(records)
ProcessYearRows ==
  /\ Idle
  /\ ~output.done
  /\ output' = Done(processYearClassification(input))
  /\ UNCHANGED <<files, resp, ownerRecords, ownerResult, tlResult, input, req>>

YearRowsNext == ParseYearRow \/ ProcessYearRows \/ EndCall

SpecYearRows == IdleInit /\ [][YearRowsNext]_vars

(***************************************************************************)
(* Properties of processYearClassification                                 *)
(***************************************************************************)
\* the year in the first column of a row, 0 when it is no number
StatedYear(row) == parseNumber(row.vals[1])

YearOf(item) == GetProp(item, YEAR_KEY).num

\* C25: processYearClassification returns exactly the input rows whose
\* first-column value parses to a year in 2010..2025, in ascending order of
\* year, rows of equal year in input order, and drops every other row.
C25_YearRowsInRange ==
  output.done =>
    LET result == output.rows
        kept == SelectSeq(input, LAMBDA row : StatedYear(row) >= 2010 /\ StatedYear(row) <= 2025)
        stated == [i \in DOMAIN kept |-> cleanedYearRow(kept[i])]
    IN /\ Len(result) = Len(kept)
       /\ \A i, j \in DOMAIN result : i < j => YearOf(result[i]) <= YearOf(result[j])
       /\ \A i \in DOMAIN kept :
            SelectSeq(result, LAMBDA item : YearOf(item) = StatedYear(kept[i]))
              = SelectSeq(stated, LAMBDA item : YearOf(item) = StatedYear(kept[i]))

\* three rows in range went in, two of one year with different counts and
\* then one of an earlier year: the last came out first, the two after it in
\* their input order
C25_Witness ==
  /\ output.done
  /\ Len(input) = 3
  /\ Len(output.rows) = 3
  /\ StatedYear(input[1]) = StatedYear(input[2])
  /\ input[1] # input[2]
  /\ StatedYear(input[3]) < StatedYear(input[1])
  /\ output.rows[1] = cleanedYearRow(input[3])
  /\ output.rows[2] = cleanedYearRow(input[1])

(***************************************************************************)
(* Column names: processOwnerClassification and processYearClassification  *)
(* on a file whose header is read one classification column at a time      *)
(***************************************************************************)
\* bound of the model: the classification columns of the widest header
MaxClassColumns == 3

\* the headers of the classification columns: two subclasses of one class
\* with their descriptions, a class without description, and a column named
\* like the total
ClassColumnNames == {<<"G", "0", "6", "N", ":", " ", "C", "o", "m", "p", "u", "t", "i", "n", "g">>, <<"G", "0", "6", "N", ":", " ", "P", "h", "y", "s", "i", "c", "s">>, <<"H", "0", "4", "L">>, <<"t", "o", "t", "a", "l", ":", " ", "a", "l", "l">>, <<"B", "6", "0">>}

\* csv-parse reads the next classification column of the header line
ReadClassColumn ==
  /\ Idle
  /\ ~output.done
  /\ Len(input) < MaxClassColumns
  /\ \E name \in ClassColumnNames :
       /\ ~SeqContains(input, name)
       /\ input' = Append(input, name)
  /\ UNCHANGED <<files, resp, ownerRecords, ownerResult, tlResult, output, req>>

\* the row of owner Acme with total 9: the i-th classification column holds i
OwnerRowUnder(header) ==
  [keys |-> <<<<"C", "u", "r", "r", "e", "n", "t", " ", "O", "w", "n", "e", "r">>, <<"T", "o", "t", "a", "l">>>> \o header,
   vals |-> <<<<"A", "c", "m", "e">>, <<"9">>>> \o [i \in DOMAIN header |-> numberToString(i)]]

\* the row of the year 2015: the i-th classification column holds i
YearRowUnder(header) ==
  [keys |-> <<<<"Y", "e", "a", "r">>>> \o header,
   vals |-> <<<<"2", "0", "1", "5">>>> \o [i \in DOMAIN header |-> numberToString(i)]]

\* data.ipcByOwner and data.ipcByYear of files with one row
ProcessColumns ==
  /\ Idle
  /\ ~output.done
  /\ Len(input) > 0
  /\ output' = Done([byOwner |-> processOwnerClassification(<<OwnerRowUnder(input)>>,
                                   TOP_OWNERS, TOP_CLASSIFICATIONS),
                     byYear |-> processYearClassification(<<YearRowUnder(input)>>)])
  /\ UNCHANGED <<files, resp, ownerRecords, ownerResult, tlResult, input, req>>

ClassColumnsNext == ReadClassColumn \/ ProcessColumns \/ EndCall

SpecClassColumns == IdleInit /\ [][ClassColumnsNext]_vars

(***************************************************************************)
(* Properties of the column names                                          *)
(***************************************************************************)
\* the output row holds one classification key per column of the header (at
\* most 5), each with the value of one column, and its own fields are those
\* of the row
ColumnsDistinct(item, header) ==
  LET columns == ClassColumns(item)
  IN /\ Cardinality(columns) = (IF Len(header) < 5 THEN Len(header) ELSE 5)
     /\ \A i, j \in DOMAIN item.keys : item.keys[i] = item.keys[j] => i = j
     /\ \A k \in columns :
          Cardinality({i \in DOMAIN header : cleanClassificationName(header[i]) = k}) = 1
     /\ \A k \in columns : \A i \in DOMAIN header :
          cleanClassificationName(header[i]) = k => GetProp(item, k) = NumV(i)
     /\ GetProp(item, CURRENT_OWNER_KEY) = StrV(<<"A", "c", "m", "e">>)
     /\ GetProp(item, TOTAL_KEY) = NumV(9)

\* C26: distinct classification columns stay distinct in the output: every
\* owner row returned by processOwnerClassification has exactly min(5, number
\* of classification columns) classification keys, each with the value of
\* exactly one input column, and no column overwrites another column's value
\* or the row's currentOwner or total after its header is cut at the colon.
C26_ColumnsStayDistinct ==
  output.done =>
    /\ Len(output.rows.byOwner) = 1
    /\ ColumnsDistinct(output.rows.byOwner[1], input)

\* what the code holds to: the columns stay distinct when their names cut at
\* the colon are different from each other and from currentOwner and total
C26_DistinctCleanNames ==
  (/\ output.done
   /\ \A i, j \in DOMAIN input :
        cleanClassificationName(input[i]) = cleanClassificationName(input[j]) => i = j
   /\ \A i \in DOMAIN input :
        cleanClassificationName(input[i]) \notin {CURRENT_OWNER_KEY, TOTAL_KEY})
  => /\ Len(output.rows.byOwner) = 1
     /\ ColumnsDistinct(output.rows.byOwner[1], input)

(***************************************************************************)
(* The Nordic subset on the map                                            *)
(***************************************************************************)
\* GeographicChart, processedGeoData: the records the map keeps
validData(data) ==
  SelectSeq(data, LAMBDA item : item.iso3 # null /\ item.iso3 # <<>>)

\* C27: each of the five Nordic country codes (DK, FI, IS, NO, SE) maps to a
\* non-null ISO-3 code in the static lookup table, so every record of the
\* Nordic subset, zero-total padding records included, has a non-null iso3
\* and passes the map component's filter on iso3.
C27_NordicIso3 ==
  Answered("geographic_p005") =>
    /\ \A k \in DOMAIN NORDIC_COUNTRY_CODES : iso2ToIso3(NORDIC_COUNTRY_CODES[k]) # null
    /\ \A i \in DOMAIN resp.body.data.nordicFamilyData :
         resp.body.data.nordicFamilyData[i].iso3 # null
    /\ validData(resp.body.data.nordicFamilyData) = resp.body.data.nordicFamilyData
    /\ validData(resp.body.data.nordicPriorityData) = resp.body.data.nordicPriorityData

\* what the table holds to: every Nordic code but IS has an ISO-3 code, and
\* the map keeps every record of the Nordic subset but those of Iceland
C27_NordicIso3_ExceptIceland ==
  /\ \A k \in DOMAIN NORDIC_COUNTRY_CODES :
       NORDIC_COUNTRY_CODES[k] # <<"I", "S">> => iso2ToIso3(NORDIC_COUNTRY_CODES[k]) # null
  /\ iso2ToIso3(<<"I", "S">>) = null
  /\ Answered("geographic_p005") =>
       validData(resp.body.data.nordicFamilyData) =
         SelectSeq(resp.body.data.nordicFamilyData,
                   LAMBDA item : toUpperCase(item.countryCode) # <<"I", "S">>)

(***************************************************************************)
(* GET /api/entity                                                         *)
(***************************************************************************)
\* the files of the entity route that are written in this model
EntityFilesWritten ==
  {ASSIGNEE_PROCESSED_FILE, ASSIGNEE_COUNTRY_FILE, ASSIGNEE_COUNT_FILE, INVENTOR_COUNTRY_FILE}

EntityEnv ==
  /\ \E path \in EntityFilesWritten :
       CreateFile(path) \/ AppendRow(path) \/ CorruptFile(path) \/ RemoveFile(path)
  /\ UNCHANGED <<resp, ownerRecords, ownerResult, tlResult, input, output, req>>

\* 200 with the cache header on success, 500 otherwise
GET_entity ==
  /\ Idle
  /\ resp' = respond("entity", getEntityData)
  /\ UNCHANGED <<files, ownerRecords, ownerResult, tlResult, input, output, req>>

EntityNext == EntityEnv \/ GET_entity \/ Deliver

SpecEntity == IdleInit /\ [][EntityNext]_vars

(***************************************************************************)
(* Properties of GET /api/entity                                           *)
(***************************************************************************)
\* the records of the processed assignee file, under its name or its alternate
ProcessedAssigneeRecords ==
  IF InputRows(ASSIGNEE_PROCESSED_FILE) # <<>> \/ existsSync(ASSIGNEE_PROCESSED_FILE)
  THEN InputRows(ASSIGNEE_PROCESSED_FILE)
  ELSE InputRows(ASSIGNEE_PROCESSED_ALTERNATES[1])

\* C28: a successful entity response always carries data: at least one of
\* assigneeData and inventorData is non-empty; valid rows of the raw
\* Assignee_Country.csv are used whenever the processed assignee file
\* contributes no output record.
C28_SuccessCarriesData ==
  Answered("entity") =>
    /\ resp.body.data.assigneeData # <<>> \/ resp.body.data.inventorData # <<>>
    /\ normalizeAssigneeData(ProcessedAssigneeRecords) = <<>> =>
         resp.body.data.assigneeData = normalizeAssigneeData(InputRows(ASSIGNEE_COUNTRY_FILE))

\* what getEntityData holds to: success exactly when one of the five files
\* has records, and the raw assignee file is used exactly when the processed
\* one has no record at all
C28_SuccessMeansRecords ==
  resp.endpoint = "entity" =>
    /\ resp.body.success <=>
         \/ ProcessedAssigneeRecords # <<>>
         \/ \E path \in EntityFiles \ {ASSIGNEE_PROCESSED_FILE} : InputRows(path) # <<>>
    /\ resp.body.success =>
         resp.body.data.assigneeData =
           normalizeAssigneeData(IF ProcessedAssigneeRecords # <<>>
                                 THEN ProcessedAssigneeRecords
                                 ELSE InputRows(ASSIGNEE_COUNTRY_FILE))

(***************************************************************************)
(* A change of the data directory while a request runs                     *)
(*                                                                         *)
(* The data directory is changed by other processes, at any moment: also   *)
(* between the existsSync of a file and its readFileSync. One request is   *)
(* followed (requests share nothing); its handler is cut into the step     *)
(* that looks for a file and the step that reads it. An error thrown by a  *)
(* step goes through the try blocks around it, from the innermost to GET's *)
(* own; an error that passes them all is an unhandled exception and the    *)
(* request ends without a response.                                        *)
(***************************************************************************)
\* the catch clause left out: the error goes on to the caller
tryCatch_uncaught(result, handled) == result

\* try { result } catch (error) { handled }
tryCatch(result, handled) == IF result.threw THEN Returned(handled) ELSE result

\* GET: try { result = await handler(); return NextResponse.json(result, ...) }
\*      catch (error) { return NextResponse.json({success: false, ...}, 500) }
GET_outcome(endpoint, result) ==
  tryCatch(IF result.threw THEN result ELSE Returned(respond(endpoint, result.records)),
           JsonResponse(endpoint, Failure("Internal server error"), 500, NoHeaders))

\* the catch clause of the three get...Data functions: the error becomes the
\* result {success: false, error: error.message}
handlerCatch(result) == tryCatch(result, Failure("read or parse error"))

\* the files that change while a request runs
RaceFiles ==
  {FAMILY_FILE, PRIORITY_FILE, IPC_FULL_FILE, INVENTOR_COUNTRY_FILE,
   ASSIGNEE_PROCESSED_FILE, ASSIGNEE_COUNTRY_FILE}

\* the content these files are written with
WrittenRows(path) ==
  CASE path = FAMILY_FILE -> <<FamilyRow(<<"N", "O">>, <<"1", "2">>)>>
    [] path = PRIORITY_FILE -> <<PriorityRow(<<"S", "E">>, <<"3">>)>>
    [] path = IPC_FULL_FILE -> <<FullRow(<<"G", "0", "6", "N", ":", " ", "C", "o", "m", "p", "u", "t", "i", "n", "g">>, <<"1", "2">>)>>
    [] path = INVENTOR_COUNTRY_FILE -> <<InventorRow(<<"N", "O">>, <<"A", "n", "n">>)>>
    [] path = ASSIGNEE_PROCESSED_FILE -> <<AssigneeRow(<<"N", "O">>, <<"A", "c", "m", "e">>, <<"5">>)>>
    [] path = ASSIGNEE_COUNTRY_FILE -> <<AssigneeRow(<<"D", "K">>, <<"B", "e", "t", "a">>, <<"9">>)>>

\* another process writes, removes or locks a file
RaceEnv ==
  /\ \E path \in RaceFiles :
       \/ /\ files[path].status # "ok"
          /\ files' = [files EXCEPT ![path] = OkFile(WrittenRows(path))]
       \/ /\ files[path].status # "missing"
          /\ files' = [files EXCEPT ![path] = MissingFile]
       \/ /\ files[path].status = "ok"
          /\ files' = [files EXCEPT ![path] = UnreadableFile]
  /\ UNCHANGED <<resp, ownerRecords, ownerResult, tlResult, input, output, req>>

\* a request arrives while none is in flight and takes the first slot
Arrives(r) == NoneInFlight /\ r = 1

\* the request ends: with the response GET returns, or without one when the
\* error has passed every catch clause
Complete(r, outcome, data) ==
  \E ended \in {outcome} :
    req' = [req EXCEPT ![r].data = data,
                       ![r].response = IF ended.threw THEN NoResponse ELSE ended.records,
                       ![r].pc = IF ended.threw THEN "crashed" ELSE "done"]

\* a file found by the check that cannot be read now
Lost(path) == path # NOT_FOUND /\ files[path].status # "ok"

(* GET /api/entity: the five findCsvFile calls, then the five reads *)
FindEntityFiles(r) ==
  /\ Arrives(r)
  /\ req' = [req EXCEPT ![r] = [endpoint |-> "entity", pc |-> "load",
                                data |-> [fileInfo |-> entityFiles, affected |-> {}],
                                response |-> NoResponse]]

\* loadCsvDataSafe with its try block, the error kept when it is not caught
loadCsvDataSafe_outcome(filePath) ==
  IF filePath = NOT_FOUND THEN Returned(<<>>)
  ELSE tryCatch(loadCsvData_entity(filePath), <<>>)

LoadEntityFiles(r) ==
  /\ req[r].endpoint = "entity"
  /\ req[r].pc = "load"
  /\ \E fileInfo \in {req[r].data.fileInfo} :
     \E safe \in {[name \in DOMAIN fileInfo |-> loadCsvDataSafe_outcome(fileInfo[name])]} :
     \E loaded \in {[name \in DOMAIN fileInfo |-> safe[name].records]} :
     \E result \in {handlerCatch(IF \E name \in DOMAIN fileInfo : safe[name].threw
                                 THEN Threw("read or parse error")
                                 ELSE Returned(entityResult(fileInfo, loaded)))} :
       Complete(r, GET_outcome("entity", result),
                [fileInfo |-> fileInfo, loaded |-> loaded,
                 affected |-> {name \in DOMAIN fileInfo : Lost(fileInfo[name])}])

(* GET /api/geographic of part_004: loadCsvData of the two required files *)
CheckGeoFile(r) ==
  \/ /\ Arrives(r)
     /\ req' = [req EXCEPT ![r] =
                 [endpoint |-> "geographic_p004", pc |-> "check",
                  data |-> [file |-> FAMILY_FILE, family |-> <<>>, affected |-> {}],
                  response |-> NoResponse]]
  \/ /\ req[r].endpoint = "geographic_p004"
     /\ req[r].pc = "check"
     /\ IF existsSync(req[r].data.file)
        THEN req' = [req EXCEPT ![r].pc = "read"]
        ELSE Complete(r, GET_outcome("geographic_p004",
                                     handlerCatch(Threw("Required file not found"))),
                      req[r].data)

ReadGeoFile(r) ==
  /\ req[r].endpoint = "geographic_p004"
  /\ req[r].pc = "read"
  /\ \E file \in {req[r].data.file} :
     \E loaded \in {readStripAndParse(file)} :
     \E data \in {[req[r].data EXCEPT
                     !.affected = IF Lost(file) THEN @ \cup {file} ELSE @]} :
       IF loaded.threw
       THEN Complete(r, GET_outcome("geographic_p004", handlerCatch(loaded)), data)
       ELSE IF file = FAMILY_FILE
       THEN req' = [req EXCEPT ![r].data = [data EXCEPT !.file = PRIORITY_FILE,
                                                        !.family = loaded.records],
                               ![r].pc = "check"]
       ELSE \E result \in {geographicResult_p004(Returned(data.family), loaded,
                                                  loadCsvData_p004(TRENDS_FILE))} :
              Complete(r, GET_outcome("geographic_p004", handlerCatch(Returned(result))),
                       data)

(* GET /api/classification: per section findCsvFile, then loadCsvData *)
FindSectionFile(r) ==
  \/ /\ Arrives(r)
     /\ req' = [req EXCEPT ![r] =
          [endpoint |-> "classification", pc |-> "load",
           data |-> [section |-> SectionOrder[1],
                     file |-> findCsvFile(FileOfSection(SectionOrder[1]),
                                          AlternatesOfSection(SectionOrder[1])),
                     sections |-> [section \in ClassSections |-> <<>>],
                     affected |-> {}],
           response |-> NoResponse]]
  \/ /\ req[r].endpoint = "classification"
     /\ req[r].pc = "find"
     /\ req' = [req EXCEPT
          ![r].data.file = findCsvFile(FileOfSection(req[r].data.section),
                                       AlternatesOfSection(req[r].data.section)),
          ![r].pc = "load"]

\* if (file) { try { data.x = process(await loadCsvData(file)) } catch { } }
LoadSectionFile(r) ==
  /\ req[r].endpoint = "classification"
  /\ req[r].pc = "load"
  /\ \E loaded \in {IF req[r].data.file = NOT_FOUND THEN Returned(<<>>)
                     ELSE loadCsvData(req[r].data.file)} :
     \E processed \in {IF loaded.threw THEN loaded
                        ELSE Returned(processSection(req[r].data.section, loaded.records))} :
     \E block \in {IF req[r].data.file = NOT_FOUND
                    THEN Returned(req[r].data.sections[req[r].data.section])
                    ELSE tryCatch(processed, req[r].data.sections[req[r].data.section])} :
     \E data \in {[req[r].data EXCEPT
                     !.sections[req[r].data.section] =
                        IF block.threw THEN @ ELSE block.records,
                     !.affected =
                        IF Lost(req[r].data.file) THEN @ \cup {req[r].data.section} ELSE @]} :
       IF block.threw
       THEN Complete(r, GET_outcome("classification", handlerCatch(block)), data)
       ELSE req' = [req EXCEPT
              ![r].data = [data EXCEPT !.section =
                             IF AfterSection(@) = "validate" THEN @ ELSE AfterSection(@)],
              ![r].pc = IF AfterSection(data.section) = "validate" THEN "validate"
                        ELSE "find"]

\* after the sixth section: the validation, the return and GET's response
ValidateSections(r) ==
  /\ req[r].endpoint = "classification"
  /\ req[r].pc = "validate"
  /\ Complete(r,
       GET_outcome("classification",
         handlerCatch(Returned(
           IF ~hasData(req[r].data.sections)
           THEN Failure("No classification data files found or all files are empty")
           ELSE Success(req[r].data.sections)))),
       req[r].data)

\* the response is sent, or the failed request is dropped
FinishRace(r) ==
  /\ req[r].pc \in {"done", "crashed"}
  /\ req' = [req EXCEPT ![r] = NoRequest]

RaceNext ==
  \/ RaceEnv
  \/ \E r \in Requests :
       /\ FindEntityFiles(r) \/ LoadEntityFiles(r) \/ CheckGeoFile(r) \/ ReadGeoFile(r)
            \/ FindSectionFile(r) \/ LoadSectionFile(r) \/ ValidateSections(r)
            \/ FinishRace(r)
       /\ UNCHANGED <<files, resp, ownerRecords, ownerResult, tlResult, input, output>>

SpecRace == IdleInit /\ [][RaceNext]_vars

(***************************************************************************)
(* Properties of a request over a changing data directory                  *)
(***************************************************************************)
\* a JSON response of the route: a success with data, or an error
WellFormed(response, endpoint) ==
  /\ response.endpoint = endpoint
  /\ response.body.success \in BOOLEAN
  /\ IF response.body.success
     THEN response.status = 200 /\ "data" \in DOMAIN response.body
     ELSE response.status = 500 /\ "error" \in DOMAIN response.body

\* the lost files have given nothing to the data of the response
NothingOfLostFiles(request) ==
  LET data == request.response.body.data
  IN CASE request.endpoint = "classification" ->
            \A section \in request.data.affected : data[section] = <<>>
       [] request.endpoint = "entity" ->
            /\ \A name \in request.data.affected : request.data.loaded[name] = <<>>
            /\ "inventorCountryFile" \in request.data.affected => data.inventorData = <<>>
            /\ "assigneeCountryProcessedFile" \in request.data.affected =>
                 data.assigneeData = normalizeAssigneeData(request.data.loaded.assigneeCountryFile)
            /\ {"assigneeCountryProcessedFile", "assigneeCountryFile"}
                  \subseteq request.data.affected => data.assigneeData = <<>>
       [] OTHER -> request.data.affected = {}

parseNumber_orZero(value) == IF Truthy(value) THEN parseNumber(value) ELSE 0

\* cleanClassificationName of lines 453-461: String(name || '') for what is
\* no string
cleanClassificationName_inline(name) ==
  IF name = undefined THEN <<>>
  ELSE LET cleaned == trim(stripQuotes(name))
       IN IF includes(cleaned, <<":">>) THEN trim(beforeFirst(cleaned, ":"))
          ELSE cleaned

\* lines 501-511: the first 10 rows as {classification, total}
fullClassification_inline(records) ==
  LET sliced == slice0(records, 10)
      mapped == [i \in 1..Len(sliced) |->
                   LET keys == ObjectKeys(sliced[i])
                   IN [classification |->
                         cleanClassificationName_inline(
                           OrElse(GetProp(sliced[i], At(keys, 0)), <<>>)),
                       total |-> parseNumber_orZero(GetProp(sliced[i], At(keys, 1)))]]
  IN SelectSeq(mapped, LAMBDA item : Truthy(item.classification) /\ item.total > 0)

\* lines 575-583: the column totals
RECURSIVE classificationTotals_inline(_, _, _)
classificationTotals_inline(validRecords, keys, i) ==
  IF i > Len(keys) THEN EmptyObject
  ELSE LET rest == classificationTotals_inline(validRecords, keys, i + 1)
           total == SumSeq([r \in 1..Len(validRecords) |->
                              parseNumber_orZero(GetProp(validRecords[r], keys[i]))])
       IN [keys |-> <<keys[i]>> \o rest.keys, vals |-> <<total>> \o rest.vals]

\* lines 592-605: the output record of one row
cleanedOwnerRow_inline(row, keys, top5Classifications) ==
  LET base == SetProp(SetProp(EmptyObject, CURRENT_OWNER_KEY,
                        StrV(cleanOwnerName(OrElse(GetProp(row, At(keys, 0)), <<>>)))),
                      TOTAL_KEY, NumV(parseNumber_orZero(GetProp(row, At(keys, 1)))))
      add[i \in 0..Len(top5Classifications)] ==
        IF i = 0 THEN base
        ELSE LET cleanKey == cleanClassificationName_inline(top5Classifications[i])
             IN IF Truthy(cleanKey)
                THEN SetProp(add[i - 1], cleanKey,
                       NumV(parseNumber_orZero(GetProp(row, top5Classifications[i]))))
                ELSE add[i - 1]
  IN add[Len(top5Classifications)]

\* lines 567-608: the owner section
ownerClassification_inline(records) ==
  LET validRecords == validOwnerRecords(records)
      keys == ObjectKeys(validRecords[1])
      totals == classificationTotals_inline(validRecords, keys, 3)
      top5Classifications ==
        slice0(SortDescBy(ObjectKeys(totals), LAMBDA k : GetProp(totals, k)), 5)
      sliced == slice0(validRecords, 15)
      mapped == [i \in 1..Len(sliced) |->
                   cleanedOwnerRow_inline(sliced[i], keys, top5Classifications)]
  IN IF Len(validRecords) = 0 THEN <<>>
     ELSE SelectSeq(mapped, LAMBDA item :
            /\ TruthyV(GetProp(item, CURRENT_OWNER_KEY))
            /\ GetProp(item, TOTAL_KEY).num > 0)

\* lines 710-724: the output record of one row of a by-year file
cleanedYearRow_inline(row) ==
  LET keys == ObjectKeys(row)
      year == parseNumber_orZero(GetProp(row, At(keys, 0)))
      add[i \in 1..Len(keys)] ==
        IF i = 1 THEN SetProp(EmptyObject, YEAR_KEY, NumV(year))
        ELSE LET classKey == cleanClassificationName_inline(keys[i])
             IN IF Truthy(classKey)
                THEN SetProp(add[i - 1], classKey,
                       NumV(parseNumber_orZero(GetProp(row, keys[i]))))
                ELSE add[i - 1]
  IN add[Len(keys)]

\* lines 708-727: the rows of 2010..2025 in ascending order of year
yearClassification_inline(records) ==
  LET inRange == SelectSeq(records, LAMBDA row :
                   LET year == parseNumber_orZero(GetProp(row, At(ObjectKeys(row), 0)))
                   IN ~(year < 2010 \/ year > 2025))
      mapped == [i \in 1..Len(inRange) |-> cleanedYearRow_inline(inRange[i])]
  IN SortDescBy(mapped, LAMBDA item : 0 - GetProp(item, YEAR_KEY).num)

processSection_inline(section, records) ==
  CASE section \in {"ipcFull", "cpcFull"} -> fullClassification_inline(records)
    [] section \in {"ipcByOwner", "cpcByOwner"} -> ownerClassification_inline(records)
    [] section \in {"cpcByYear", "ipcByYear"} -> yearClassification_inline(records)

\* the loader of lines 427-447: no removeBOM
loadCsvData_inline(path) == readAndParse(path)

\* one section: if (file) { try { data.x = ... } catch { } }
sectionData_inline(section) ==
  LET file == firstExisting(<<FileOfSection(section)>> \o AlternatesOfSection(section))
      loaded == loadCsvData_inline(file)
  IN IF file = NOT_FOUND THEN <<>>
     ELSE IF loaded.threw THEN <<>>
     ELSE processSection_inline(section, loaded.records)

\* lines 472-800: the six sections, then return {success: true, data, debug}
\* whatever the sections hold (debug, the list of files looked at, left out)
getClassificationData_inline ==
  Success([section \in ClassSections |-> sectionData_inline(section)])

\* lines 334-342 of the refactored getClassificationData: the validation and
\* the return
validatedResult(data) ==
  IF ~hasData(data)
  THEN Failure("No classification data files found or all files are empty")
  ELSE Success(data)

\* both implementations are run over the files as they are: the six sections
\* and the result of the refactored one, and the result of the inline one
RunBoth ==
  /\ Idle
  /\ ~output.done
  /\ \E data \in {[section \in ClassSections |-> sectionData(section)]} :
       output' = Done([refactoredData |-> data,
                       refactored |-> validatedResult(data),
                       inline |-> getClassificationData_inline])
  /\ UNCHANGED <<files, resp, ownerRecords, ownerResult, tlResult, input, req>>

BothNext == ClassificationEnv \/ RunBoth \/ EndCall

SpecBoth == IdleInit /\ [][BothNext]_vars

(***************************************************************************)
(* The two implementations of the classification route compared           *)
(***************************************************************************)
\* C30: the two implementations of the classification route are equivalent
\* on their data: for the same parsed records of the six files the
\* refactored aggregators produce the same six data sections as the inline
\* implementation, and both report the same success value.
C30_SameAsInline ==
  output.done =>
    /\ output.rows.inline.data = output.rows.refactoredData
    /\ output.rows.inline.success = output.rows.refactored.success

\* what holds: the sections are the same, and so is the success value when
\* one of them has a record
C30_SameSections ==
  output.done =>
    /\ output.rows.inline.data = output.rows.refactoredData
    /\ output.rows.inline.success
    /\ output.rows.refactored.success = hasData(output.rows.refactoredData)
    /\ output.rows.refactored.success => output.rows.refactored.data = output.rows.inline.data

\* the by-year aggregators agree on every list of parsed rows
C30_SameYearRows == yearClassification_inline(input) = processYearClassification(input)

\* the by-owner aggregators agree on every list of parsed rows
C30_SameOwnerRows ==
  ownerClassification_inline(ownerRecords) =
    processOwnerClassification(ownerRecords, TOP_OWNERS, TOP_CLASSIFICATIONS)

====
